---- MODULE Spec2Model ----
(***************************************************************************)
(* Model of the Breeze static-site pipeline (src/breeze/__init__.py) and   *)
(* of the plugin envelope Plugin.run (src/breeze/plugins/base.py).         *)
(*                                                                         *)
(* Plugin classes are user input: the class table (requires(), run_once,   *)
(* requirable) is drawn in the initial state.  SpecRequire explores        *)
(* Breeze.plugin() over every acyclic table over Classes; Spec explores    *)
(* configuration followed by builds over the tables of BuildLayouts.       *)
(* Breeze.plugin() is one atomic action, computed by the mutually          *)
(* recursive operators plugin / plugin_require exactly as the code         *)
(* recurses.  A build (_command_build) is stepped plugin by plugin, and    *)
(* inside a plugin's _run statement by statement.  SpecContext and         *)
(* SpecFiles follow one Plugin.run in detail (the MergedDict context view, *)
(* the records of the registry); SpecPlugin follows builds of one plugin   *)
(* (reset, discovery, runs that return or raise); SpecQuery follows one    *)
(* Breeze.filelist generator, under either interpreter major version.      *)
(* SpecDiscovery walks a source tree with build_filelist, SpecWrite writes *)
(* a final registry with write_output, SpecInDir nests InDirectory blocks. *)
(* SpecResolve follows Breeze.plugin() call by call, also over class       *)
(* tables with a cycle; SpecStock runs the stock plugins Match, Weighted,  *)
(* Concat and Data (plugins/files.py, plugins/parsing.py) on registries    *)
(* with contents; SpecServe follows the development server of              *)
(* _command_run request by request.                                        *)
(* Operators whose name ends in a lower-case suffix after an underscore    *)
(* (Register_front, ...) are faulty variants of the operator defined       *)
(* after them.                                                             *)
(***************************************************************************)
EXTENDS Integers, Sequences, FiniteSets, TLC

\* ------------------------------------------------------------------ bounds
MaxPlugins == 4      \* longest plugin list a plugin() call may produce
MaxRun     == 3      \* longest plugin list a build is explored with
MaxDel     == 2      \* longest deletion queue built by one _run
MaxOps     == 3      \* context and registry statements executed by _run calls
MaxNest    == 2      \* deepest nesting of InDirectory blocks
MaxDepth   == 4      \* deepest nesting of plugin() calls followed
MaxStock   == 2      \* stock plugins run by one run_plugins pass
MaxTime    == 4      \* seconds the development server is followed for
MaxRequests == 3     \* requests sent to the development server

\* ----------------------------------------------------------- input domains
Classes == {"P1", "P2", "P3"}
Rank    == [c \in Classes |-> CASE c = "P1" -> 1 [] c = "P2" -> 2 [] OTHER -> 3]
Lower(c) == {d \in Classes : Rank[d] < Rank[c]}
ReqLists(c) ==
    {<<>>} \cup {<<a>> : a \in Lower(c)}
           \cup {<<p[1], p[2]>> : p \in {q \in Lower(c) \X Lower(c) : q[1] # q[2]}}
PyVersions == {2, 3}
Keys == {"k1", "k2"}
CtxKeys  == {"a", "b"}     \* keys of the context dicts
AddVals  == {1}            \* values found in an additional context
LiveVals == {2}            \* values found in the live context
NewVals  == {98, 99}       \* values a plugin writes through its view
Attrs    == {"x", "y"}     \* attribute names of a record
RecVals  == {1}            \* attribute values of discovered records
DataVals == {7}            \* attribute values of a plugin's file_data

VARIABLES
    requires,      \* class -> list of required classes   (Plugin.requires)
    run_once,      \* class -> BOOLEAN                     (Plugin.run_once)
    requirable,    \* class -> BOOLEAN                     (Plugin.requirable)
    plugins,       \* Breeze.plugins: list of instances, each shown by its class
    once_plugins,  \* Breeze.once_plugins: list of classes
    last,          \* outcome of the latest plugin() call
    pc,            \* where the program is: "config", "run_plugins", "_run",
                   \* "done" (write_output returned) or "failed" (build raised)
    heap,          \* the reachable OrderedDict objects: id -> list of keys
    files,         \* Breeze.files: id of the live registry
    idx,           \* position of the run_plugins loop in Breeze.plugins
    self_files,    \* Plugin.files of the plugin being run: a registry id
    began,         \* history: the keys of self.files when this run began
    deletion_queue,\* Plugin.deletion_queue of the plugin being run
    out,           \* what the latest _run returned: 0 for None, else a registry id
    latest,        \* history: the registry most recently returned by a _run of
                   \* this build (the discovered one when none was)
    error,         \* the exception that ended the build, if any
    trace,         \* history: run() calls and returns of this run_plugins pass
    written,       \* keys handed to the writer by write_output
    \* --- one Plugin.run in detail (SpecPlugin)
    context,            \* Breeze.context, the live context: a dict
    registry,           \* Breeze.files with its records: list of [key, data]
    additional_context, \* Plugin.additional_context (constructor argument)
    file_data,          \* Plugin.file_data (constructor argument)
    changes,            \* MergedDict.changes of self.context
    deletions,          \* MergedDict.deletions of self.context
    matched_files,      \* Plugin.matched_files
    lastop,             \* history: context key -> last operation of this _run
    context0,           \* history: the live context when this run began
    registry0,          \* history: the registry when this run began
    nops,               \* number of _run statements executed so far
    \* --- one Breeze.filelist() generator (SpecQuery)
    call,               \* its arguments: pattern, kwargs (in iteration order)
                        \* and the interpreter's major version
    q_state,            \* "none", "created", "suspended" (at a yield),
                        \* "exhausted", "raised" or "closed" (dropped early)
    q_pos,              \* index of the next registry item the loop will take
    q_out,              \* the items yielded so far
    q_err,              \* the exception the generator raised, if any
    q_prev              \* history: outcome of the previous generator that
                        \* was consumed to its end with the same arguments

\* the file system and the process around one Breeze instance
VARIABLES
    config,             \* self.config: source, the four pattern lists of
                        \* discovery, destination
    fs,                 \* os.listdir: directory path -> the names it returns
    dir_queue,          \* build_filelist's queue: directories still to list
    disk,               \* the files under the destination: path -> contents
    to_write,           \* write_output's dict files, entries not yet handled
    cwd,                \* the process's working directory
    blocks,             \* the InDirectory blocks entered and not yet left,
                        \* outermost first
    raising,            \* an exception is propagating out of a block
    left,               \* history: how the last block was left, the
                        \* working directory at its entry and after it
    stack,              \* the plugin() calls in progress, outermost first:
                        \* class, whether the class object was passed, and
                        \* index of the next requirement to resolve
    made,               \* the classes instantiated by the current top-level
                        \* plugin() call, in order
    ran,                \* history: the stock plugins run_plugins has run on
                        \* the registry, in order
    now,                \* time.time()
    last_build,         \* Breeze._last_build
    pending,            \* connections waiting to be accepted by the server
    handlers,           \* the request handlers in progress
    served              \* history: the requests answered, in order

tables == <<requires, run_once, requirable>>
setup  == <<plugins, once_plugins, last>>
build  == <<pc, heap, files, idx, self_files, began, deletion_queue,
            out, latest, error, trace, written>>
detail == <<context, registry, additional_context, file_data, changes,
            deletions, matched_files, lastop, context0, registry0, nops>>
query  == <<call, q_state, q_pos, q_out, q_err, q_prev>>
calls  == <<stack, made>>
serving == <<now, last_build, pending, handlers, served>>
world  == <<config, fs, dir_queue, disk, to_write, cwd, blocks, raising,
            left, calls, ran, serving>>
vars   == <<tables, setup, build, detail, query, world>>

\* ------------------------------------------------------------------ errors
NoError == [kind |-> "none", args |-> <<>>]

\* 'Plugin "{}" required by "{}" cannot be required'.format(sub, requester)
Message(sub, requester) == <<"cannot be required", sub, requester>>

\* plugin.__class__.__name__ : the class of a class object is `type`
class_name(c, asType) == IF asType THEN "type" ELSE c

\* ------------------------------------------------------------- Breeze.plugin
\* if not sub_plugin_class.requirable
Requirable_unchecked(c) == TRUE
Requirable(c) == requirable[c]

\* sub_plugin_class() / plugin_instance(): the constructor runs
Instantiate(st, c) == [st EXCEPT !.loaded = Append(@, c)]

\* plugin_instance.__class__ in self.once_plugins
AlreadyOnce_never(st, c) == FALSE
AlreadyOnce(st, c) == \E i \in 1..Len(st.once) : st.once[i] = c

\* self.once_plugins.append(plugin_instance.__class__)
Remember_forgets(st, c) == st
Remember(st, c) == [st EXCEPT !.once = Append(@, c)]

\* (a registration that drops an instance of a class already in the list)
Register_unique(st, c) ==
    IF \E i \in 1..Len(st.plugins) : st.plugins[i] = c THEN st
    ELSE [st EXCEPT !.plugins = Append(@, c)]
\* self.plugins.append(plugin_instance)
Register_front(st, c) == [st EXCEPT !.plugins = <<c>> \o @]
Register(st, c) == [st EXCEPT !.plugins = Append(@, c)]

RECURSIVE plugin(_, _, _, _), plugin_require(_, _, _, _)

\* for sub_plugin_class in plugin.requires(): ...
plugin_require(st, reqs, requester, py) ==
    IF reqs = <<>> THEN st
    ELSE LET sub == Head(reqs) IN
         IF ~Requirable(sub)
         THEN [st EXCEPT !.err = [kind |-> "NotRequirableError",
                                  args |-> <<Message(sub, requester), sub>>]]
         ELSE LET st1 == plugin(Instantiate(st, sub), sub, FALSE, py)
              IN IF st1.err # NoError THEN st1
                 ELSE plugin_require(st1, Tail(reqs), requester, py)

\* st = [plugins, once, loaded, err]; c is the class of the argument, asType
\* says that the class object itself was passed; py is the interpreter major
\* version (exceptions are indexable, e[0], only under Python 2).
plugin(st, c, asType, py) ==
    LET r == plugin_require(st, requires[c], class_name(c, asType), py) IN
    IF r.err.kind = "NotRequirableError"
    THEN IF py = 2
         THEN [r EXCEPT !.err.args =
                  <<r.err.args[1], class_name(c, asType)>> \o Tail(r.err.args)]
         ELSE [r EXCEPT !.err = [kind |-> "TypeError", args |-> <<>>]]
    ELSE IF r.err # NoError THEN r
    ELSE LET inst == IF asType THEN Instantiate(r, c) ELSE r IN
         IF run_once[c]
         THEN IF AlreadyOnce(inst, c)
              THEN inst
              ELSE Register(Remember(inst, c), c)
         ELSE Register(inst, c)

NoCall == [cls |-> "none", asType |-> FALSE, py |-> 2, err |-> NoError,
           loaded |-> <<>>, before |-> <<>>, onceBefore |-> <<>>]

InitTables ==
    /\ requires \in {f \in [Classes -> UNION {ReqLists(c) : c \in Classes}] :
                        \A c \in Classes : f[c] \in ReqLists(c)}
    /\ run_once \in [Classes -> BOOLEAN]
    /\ requirable \in [Classes -> BOOLEAN]

\* Breeze.__init__
InitBreeze ==
    /\ plugins = <<>>
    /\ once_plugins = <<>>
    /\ last = NoCall
    /\ pc = "config"
    /\ heap = (1 :> <<>>)
    /\ files = 1
    /\ idx = 0
    /\ self_files = 0
    /\ began = <<>>
    /\ deletion_queue = <<>>
    /\ out = 0
    /\ latest = 1
    /\ error = NoError
    /\ trace = <<>>
    /\ written = <<>>

\* ------------------------------------------------------------------ dicts
\* a dict is a function on the set of its keys
EmptyDict == [k \in {} |-> 0]
Dicts(K, V) == UNION {[D -> V] : D \in SUBSET K}
\* d[k] = v
Put(d, k, v) == [x \in DOMAIN d \cup {k} |-> IF x = k THEN v ELSE d[x]]
\* del d[k]
Del(d, k) == [x \in DOMAIN d \ {k} |-> d[x]]
\* d.update(e)
Update(d, e) == [x \in DOMAIN d \cup DOMAIN e |-> IF x \in DOMAIN e THEN e[x] ELSE d[x]]

NoOp == [op |-> "none", v |-> 0]
\* Python values: None, integers and strings (a string is its characters)
None == [t |-> "none", n |-> 0, s |-> <<>>]
IntVal(n) == [t |-> "int", n |-> n, s |-> <<>>]
StrVal(s) == [t |-> "str", n |-> 0, s |-> s]
NoQuery == [pattern |-> None, kwargs |-> <<>>, py |-> 3]
NoOutcome == [full |-> FALSE, out |-> <<>>, err |-> NoError]
\* no InDirectory block has been left yet
NoExit == [by |-> "none", nested |-> FALSE, entered |-> <<>>, before |-> <<>>,
           after |-> <<>>]
\* no stock plugin has been run and no server has been started
NoServer ==
    /\ ran = <<>>
    /\ now = 0
    /\ last_build = 0
    /\ pending = 0
    /\ handlers = <<>>
    /\ served = <<>>

\* nothing of the file system or the working directory is looked at
InitWorld ==
    /\ config = EmptyDict
    /\ fs = EmptyDict
    /\ dir_queue = <<>>
    /\ disk = EmptyDict
    /\ to_write = EmptyDict
    /\ cwd = <<>>
    /\ blocks = <<>>
    /\ raising = FALSE
    /\ left = NoExit
    /\ stack = <<>>
    /\ made = <<>>
    /\ NoServer

\* Breeze._reset leaves an empty context and an empty registry; no plugin
\* is being run
InitIdle ==
    /\ InitWorld
    /\ context = EmptyDict
    /\ registry = <<>>
    /\ additional_context = EmptyDict
    /\ file_data = EmptyDict
    /\ changes = EmptyDict
    /\ deletions = <<>>
    /\ matched_files = <<>>
    /\ lastop = [k \in CtxKeys |-> NoOp]
    /\ context0 = EmptyDict
    /\ registry0 = <<>>
    /\ nops = 0
    /\ call = NoQuery
    /\ q_state = "none"
    /\ q_pos = 0
    /\ q_out = <<>>
    /\ q_err = NoError
    /\ q_prev = NoOutcome

InitRequire == InitTables /\ InitBreeze /\ InitIdle

\* Builds are explored for four layouts of requirements: plugins that
\* require nothing (every plugin list arises), and the layouts found among
\* the repository's own plugins: two types requiring the same third one
\* (Parsed and Concat require Contents), a chain (Data requires Parsed
\* requires Contents), and a type required both directly and through
\* another requirement.  run_once is free; every class may be required.
Layout(r2, r3) ==
    [c \in Classes |-> CASE c = "P1" -> <<>> [] c = "P2" -> r2 [] OTHER -> r3]
BuildLayouts ==
    {Layout(<<>>, <<>>), Layout(<<"P1">>, <<"P1">>), Layout(<<"P1">>, <<"P2">>),
     Layout(<<"P1">>, <<"P1", "P2">>)}
Init ==
    /\ InitRequire
    /\ requires \in BuildLayouts
    /\ \A c \in Classes : requirable[c]

\* b.plugin(x): x an instance of class c, or the class c itself
Plugin(c, asType, py) ==
    LET r == plugin([plugins |-> plugins, once |-> once_plugins,
                     loaded |-> <<>>, err |-> NoError], c, asType, py)
    IN /\ pc = "config"
       /\ Len(r.plugins) <= MaxPlugins
       /\ plugins' = r.plugins
       /\ once_plugins' = r.once
       /\ last' = [cls |-> c, asType |-> asType, py |-> py, err |-> r.err,
                   loaded |-> r.loaded, before |-> plugins,
                   onceBefore |-> once_plugins]
       /\ UNCHANGED <<world, query, detail, tables, build>>

\* ------------------------------------------------------------ registries
Range(s) == {s[i] : i \in 1..Len(s)}
NoDupSeqs(S) ==
    UNION {{s \in [1..n -> S] : \A i, j \in 1..n : i # j => s[i] # s[j]}
           : n \in 0..Cardinality(S)}
\* what discovery (build_filelist) can leave in the registry: no file, one
\* file or two files (which key comes first is a renaming of the keys)
Discovered == {<<>>, <<"k1">>, <<"k1", "k2">>}
Perms(s) == {t \in NoDupSeqs(Range(s)) : Len(t) = Len(s)}
Remove(s, k) == SelectSeq(s, LAMBDA x : x # k)

\* objects no longer referenced are dropped from the heap
Only(h, ids) == [i \in DOMAIN h \cap ids |-> h[i]]
\* the OrderedDict a plugin's _run creates gets an id never used in this build
NewId == idx + 1

\* for plugin in self.plugins: the loop moves to the next list entry
NextPlugin_skip(i) == i + 2
NextPlugin(i) == i + 1

\* if out is not None: self.files = out
Adopt_ignore(live, o) == live
Adopt(live, o) == IF o = 0 THEN live ELSE o

\* _command_build: _reset, then build_filelist, then enter run_plugins
CommandBuild ==
    /\ pc \in {"config", "done", "failed"}
    /\ Len(plugins) <= MaxRun
    /\ \E found \in Discovered : heap' = (1 :> found)
    /\ files' = 1
    /\ idx' = 1
    /\ self_files' = 0
    /\ began' = <<>>
    /\ deletion_queue' = <<>>
    /\ out' = 0
    /\ latest' = 1
    /\ error' = NoError
    /\ trace' = <<>>
    /\ written' = <<>>
    /\ pc' = "run_plugins"
    /\ last' = NoCall
    /\ UNCHANGED <<world, query, detail, tables, plugins, once_plugins>>

\* run_plugins takes the next plugin; Plugin.run up to the call of _run
RunBegin ==
    /\ pc = "run_plugins"
    /\ idx <= Len(plugins)
    /\ deletion_queue' = <<>>
    /\ self_files' = files
    /\ began' = heap[files]
    /\ heap' = Only(heap, {files})
    /\ trace' = Append(trace, [ev |-> "run", i |-> idx])
    /\ pc' = "_run"
    /\ UNCHANGED <<world, query, detail, tables, setup, files, idx, out, latest, error, written>>

\* (a delete that removes the record from the registry at once)
Delete_immediate(k) ==
    /\ pc = "_run"
    /\ Len(deletion_queue) < MaxDel
    /\ deletion_queue' = Append(deletion_queue, k)
    /\ registry' = SelectSeq(registry, LAMBDA r : r.key # k)
    /\ UNCHANGED <<world, query, tables, setup, pc, heap, files, idx, self_files,
                   began, out, latest, error, trace, written, context,
                   additional_context, file_data, changes, deletions,
                   matched_files, lastop, context0, registry0, nops>>

\* self.delete(filename) inside _run
Delete(k) ==
    /\ pc = "_run"
    /\ Len(deletion_queue) < MaxDel
    /\ deletion_queue' = Append(deletion_queue, k)
    /\ UNCHANGED <<world, query, detail, tables, setup, pc, heap, files, idx, self_files,
                   began, out, latest, error, trace, written>>

\* for filename in self.deletion_queue: del self.files[filename]
RECURSIVE ApplyDeletions(_, _)
ApplyDeletions(reg, queue) ==
    IF queue = <<>> THEN [reg |-> reg, err |-> NoError]
    ELSE IF Head(queue) \notin Range(reg)
         THEN [reg |-> reg, err |-> [kind |-> "KeyError", args |-> <<Head(queue)>>]]
         ELSE ApplyDeletions(Remove(reg, Head(queue)), Tail(queue))

\* what _run can return: None, or a new OrderedDict of the same keys
ReturnValues == {<<"None">>} \cup Perms(heap[self_files])

\* _run returns (None, or a new registry holding the same keys in some
\* order); Plugin.run applies the queued deletions and returns; run_plugins
\* adopts a non-None result and moves on
Returned(new) ==
    /\ LET res   == ApplyDeletions(heap[self_files], deletion_queue)
           heap1 == [heap EXCEPT ![self_files] = res.reg]
       IN IF res.err # NoError
          THEN /\ heap' = heap1
               /\ error' = res.err
               /\ pc' = "failed"
               /\ UNCHANGED <<files, idx, out, latest, trace>>
          ELSE LET o == IF new = <<"None">> THEN 0 ELSE NewId IN
               /\ error' = NoError
               /\ pc' = "run_plugins"
               /\ idx' = NextPlugin(idx)
               /\ trace' = Append(trace, [ev |-> "ret", i |-> idx])
               /\ heap' = IF o = 0 THEN heap1 ELSE heap1 @@ (NewId :> new)
               /\ out' = o
               /\ latest' = IF o = 0 THEN latest ELSE o
               /\ files' = Adopt(files, o)
    /\ UNCHANGED <<world, query, detail, tables, setup, self_files, began, deletion_queue,
                   written>>

RunReturn ==
    /\ pc = "_run"
    /\ \E new \in ReturnValues : Returned(new)

\* (a run_plugins that caught the exception and went on with the next plugin)
RunRaise_swallow ==
    /\ pc = "_run"
    /\ error' = [kind |-> "Exception", args |-> <<>>]
    /\ pc' = "run_plugins"
    /\ idx' = NextPlugin(idx)
    /\ UNCHANGED <<world, query, detail, tables, setup, heap, files, self_files, began,
                   deletion_queue, out, latest, trace, written>>

\* _run raises: nothing after line 141 of base.py runs, run_plugins and
\* _command_build let the exception through
RunRaise ==
    /\ pc = "_run"
    /\ error' = [kind |-> "Exception", args |-> <<>>]
    /\ pc' = "failed"
    /\ UNCHANGED <<world, query, detail, tables, setup, heap, files, idx, self_files, began,
                   deletion_queue, out, latest, trace, written>>

\* the run_plugins loop is over; _command_build calls write_output
WriteOutput ==
    /\ pc = "run_plugins"
    /\ idx > Len(plugins)
    /\ written' = heap[files]
    /\ pc' = "done"
    /\ UNCHANGED <<world, query, detail, tables, setup, heap, files, idx, self_files, began,
                   deletion_queue, out, latest, error, trace>>

NextRequire ==
    \E c \in Classes, asType \in BOOLEAN, py \in PyVersions : Plugin(c, asType, py)

Next ==
    \/ \E c \in Classes, asType \in BOOLEAN, py \in PyVersions : Plugin(c, asType, py)
    \/ CommandBuild
    \/ RunBegin
    \/ \E k \in Keys : Delete(k)
    \/ RunReturn
    \/ RunRaise
    \/ WriteOutput

\* the whole program: configuration, then builds
Spec == Init /\ [][Next]_vars
\* configuration only, over every class table
SpecRequire == InitRequire /\ [][NextRequire]_vars

\* ------------------------------------------ one Plugin.run, in detail
\* MergedDict.__contains__ of self.context = MergedDict(additional, live):
\* self.dicts is [changes, additional_context, breeze_instance.context]
contains(k) ==
    IF k \in Range(deletions) THEN FALSE
    ELSE \/ k \in DOMAIN changes
         \/ k \in DOMAIN additional_context
         \/ k \in DOMAIN context

\* MergedDict.__len__: the sizes of the dicts of self.dicts, added up
len ==
    Cardinality(DOMAIN changes) + Cardinality(DOMAIN additional_context)
        + Cardinality(DOMAIN context)

KeyError(k) == [kind |-> "KeyError", args |-> <<k>>]
Found(v) == [found |-> TRUE, v |-> v]
Missing  == [found |-> FALSE, v |-> 0]     \* the lookup raises KeyError

\* MergedDict.__getitem__: the first of self.dicts that has the key
getitem_liveFirst(k) ==
    IF k \in Range(deletions) THEN Missing
    ELSE IF k \in DOMAIN context THEN Found(context[k])
    ELSE IF k \in DOMAIN additional_context THEN Found(additional_context[k])
    ELSE IF k \in DOMAIN changes THEN Found(changes[k])
    ELSE Missing
getitem(k) ==
    IF k \in Range(deletions) THEN Missing
    ELSE IF k \in DOMAIN changes THEN Found(changes[k])
    ELSE IF k \in DOMAIN additional_context THEN Found(additional_context[k])
    ELSE IF k \in DOMAIN context THEN Found(context[k])
    ELSE Missing

\* list.remove(x): drops the first occurrence
RECURSIVE RemoveFirst(_, _)
RemoveFirst(s, x) ==
    IF s = <<>> THEN s
    ELSE IF Head(s) = x THEN Tail(s)
    ELSE <<Head(s)>> \o RemoveFirst(Tail(s), x)

\* MergedDict.merge_changes: update the primary dict with the changes, then
\* delete from it every deleted key it holds; the result is the primary dict
RECURSIVE DelAll(_, _)
DelAll(d, ks) ==
    IF ks = <<>> THEN d
    ELSE DelAll(IF Head(ks) \in DOMAIN d THEN Del(d, Head(ks)) ELSE d, Tail(ks))
merge_changes_keepsDeleted(primary, chg, dels) == Update(primary, chg)
merge_changes_flattens(primary, chg, dels) ==
    DelAll(Update(Update(primary, additional_context), chg), dels)
merge_changes(primary, chg, dels) == DelAll(Update(primary, chg), dels)

\* the registry: an OrderedDict, modelled as its list of items
KeysOf(reg) == [i \in 1..Len(reg) |-> reg[i].key]
Has(reg, k) == \E i \in 1..Len(reg) : reg[i].key = k
Data(reg, k) == reg[CHOOSE i \in 1..Len(reg) : reg[i].key = k].data
Item(k, d) == [key |-> k, data |-> d]
\* od[k] = d : a present key keeps its place, a new key goes to the end
SetItem_toFront(reg, k, d) ==
    <<Item(k, d)>> \o SelectSeq(reg, LAMBDA e : e.key # k)
SetItem(reg, k, d) ==
    IF Has(reg, k)
    THEN [i \in 1..Len(reg) |-> IF reg[i].key = k THEN Item(k, d) ELSE reg[i]]
    ELSE Append(reg, Item(k, d))
\* del od[k]
DelItem(reg, k) == SelectSeq(reg, LAMBDA e : e.key # k)

\* (a run that forgets its deletion queue)
DeleteQueued_skips(reg, queue) == [reg |-> reg, err |-> NoError]

\* for filename in self.deletion_queue: del self.files[filename]
RECURSIVE DeleteQueued(_, _)
DeleteQueued(reg, queue) ==
    IF queue = <<>> THEN [reg |-> reg, err |-> NoError]
    ELSE IF ~Has(reg, Head(queue))
         THEN [reg |-> reg, err |-> KeyError(Head(queue))]
         ELSE DeleteQueued(DelItem(reg, Head(queue)), Tail(queue))

\* the record a plugin stores with self.files[k] = {...}
NewRecord == ("x" :> 3)

\* (a run that goes on with the deletion queue and the matched-file list
\* the instance's previous run left)
RunEnter_keepsQueue ==
    /\ pc \in {"ready", "returned", "failed"}
    /\ changes' = EmptyDict
    /\ deletions' = <<>>
    /\ lastop' = [k \in CtxKeys |-> NoOp]
    /\ context0' = context
    /\ registry0' = registry
    /\ error' = NoError
    /\ pc' = "_run"
    /\ UNCHANGED <<world, query, tables, setup, heap, files, idx, self_files, began, out,
                   latest, trace, written, context, registry, deletion_queue,
                   matched_files, additional_context, file_data, nops>>

\* Plugin.run, lines 135-140: up to the call of _run
RunEnter ==
    /\ pc \in {"ready", "returned", "failed"}
    /\ deletion_queue' = <<>>
    /\ matched_files' = <<>>
    /\ changes' = EmptyDict
    /\ deletions' = <<>>
    /\ lastop' = [k \in CtxKeys |-> NoOp]
    /\ context0' = context
    /\ registry0' = registry
    /\ error' = NoError
    /\ pc' = "_run"
    /\ UNCHANGED <<world, query, tables, setup, heap, files, idx, self_files, began, out,
                   latest, trace, written, context, registry,
                   additional_context, file_data, nops>>

\* (a context view that writes through to the live context)
ContextSet_writesThrough(k, v) ==
    /\ pc = "_run"
    /\ nops < MaxOps
    /\ nops' = nops + 1
    /\ context' = Put(context, k, v)
    /\ lastop' = [lastop EXCEPT ![k] = [op |-> "set", v |-> v]]
    /\ UNCHANGED <<world, query, tables, setup, build, registry, additional_context,
                   file_data, changes, deletions, matched_files, context0,
                   registry0>>

\* self.context[k] = v inside _run  (MergedDict.__setitem__)
ContextSet(k, v) ==
    /\ pc = "_run"
    /\ nops < MaxOps
    /\ nops' = nops + 1
    /\ changes' = Put(changes, k, v)
    /\ deletions' = IF k \in Range(deletions) THEN RemoveFirst(deletions, k)
                    ELSE deletions
    /\ lastop' = [lastop EXCEPT ![k] = [op |-> "set", v |-> v]]
    /\ UNCHANGED <<world, query, tables, setup, build, context, registry,
                   additional_context, file_data, matched_files, context0,
                   registry0>>

\* del self.context[k] inside _run  (MergedDict.__delitem__); the KeyError
\* of an absent key leaves _run
ContextDel(k) ==
    /\ pc = "_run"
    /\ nops < MaxOps
    /\ nops' = nops + 1
    /\ IF contains(k)
       THEN /\ deletions' = Append(deletions, k)
            /\ lastop' = [lastop EXCEPT ![k] = [op |-> "del", v |-> 0]]
            /\ UNCHANGED <<pc, error>>
       ELSE /\ error' = KeyError(k)
            /\ pc' = "failed"
            /\ UNCHANGED <<deletions, lastop>>
    /\ UNCHANGED <<world, query, tables, setup, heap, files, idx, self_files, began,
                   deletion_queue, out, latest, trace, written, context,
                   registry, additional_context, file_data, changes,
                   matched_files, context0, registry0>>

\* self.files[k] = {...} inside _run
FilesSet(k) ==
    /\ pc = "_run"
    /\ nops < MaxOps
    /\ nops' = nops + 1
    /\ registry' = SetItem(registry, k, NewRecord)
    /\ UNCHANGED <<world, query, tables, setup, build, context, additional_context,
                   file_data, changes, deletions, matched_files, lastop,
                   context0, registry0>>

\* self.mark_matched(k) inside _run
mark_matched_always(reg, k, fd) == SetItem(reg, k, fd)
mark_matched(reg, k, fd) ==
    IF Has(reg, k) THEN SetItem(reg, k, Update(Data(reg, k), fd)) ELSE reg
MarkMatched(k) ==
    /\ pc = "_run"
    /\ nops < MaxOps
    /\ nops' = nops + 1
    /\ matched_files' = Append(matched_files, k)
    /\ registry' = mark_matched(registry, k, file_data)
    /\ UNCHANGED <<world, query, tables, setup, build, context, additional_context,
                   file_data, changes, deletions, lastop, context0,
                   registry0>>

\* Plugin.run, lines 142-145: _run returned (None); the changes are merged
\* into the live context, then the queued keys are deleted
RunFlush ==
    /\ pc = "_run"
    /\ context' = merge_changes(context, changes, deletions)
    /\ LET res == DeleteQueued(registry, deletion_queue)
       IN /\ registry' = res.reg
          /\ error' = res.err
          /\ pc' = IF res.err = NoError THEN "returned" ELSE "failed"
    /\ UNCHANGED <<world, query, tables, setup, heap, files, idx, self_files, began,
                   deletion_queue, out, latest, trace, written,
                   additional_context, file_data, changes, deletions,
                   matched_files, lastop, context0, registry0, nops>>

\* the registries a run is explored on: no file, one file, two files
Registries ==
    {<<>>}
    \cup {<<Item("k1", d)>> : d \in Dicts(Attrs, RecVals)}
    \cup {<<Item("k1", p[1]), Item("k2", p[2])>>
          : p \in Dicts(Attrs, RecVals) \X Dicts(Attrs, RecVals)}

\* a plugin with no requirements has been constructed and is about to be run
\* on a Breeze instance whose context and registry earlier plugins have filled
InitRun ==
    /\ InitWorld
    /\ requires = [c \in Classes |-> <<>>]
    /\ run_once = [c \in Classes |-> FALSE]
    /\ requirable = [c \in Classes |-> TRUE]
    /\ plugins = <<"P1">>
    /\ once_plugins = <<>>
    /\ last = NoCall
    /\ pc = "ready"
    /\ heap = (1 :> <<>>)
    /\ files = 1
    /\ idx = 0
    /\ self_files = 0
    /\ began = <<>>
    /\ deletion_queue = <<>>
    /\ out = 0
    /\ latest = 1
    /\ error = NoError
    /\ trace = <<>>
    /\ written = <<>>
    /\ changes = EmptyDict
    /\ deletions = <<>>
    /\ matched_files = <<>>
    /\ lastop = [k \in CtxKeys |-> NoOp]
    /\ context0 = context
    /\ registry0 = registry
    /\ nops = 0
    /\ call = NoQuery
    /\ q_state = "none"
    /\ q_pos = 0
    /\ q_out = <<>>
    /\ q_err = NoError
    /\ q_prev = NoOutcome

\* any additional context and any live context, one registry
InitContext ==
    /\ additional_context \in Dicts(CtxKeys, AddVals)
    /\ context \in Dicts(CtxKeys, LiveVals)
    /\ registry = <<Item("k1", ("x" :> 1)), Item("k2", EmptyDict)>>
    /\ file_data = ("x" :> 7)
    /\ InitRun

\* any registry and any file_data, one pair of contexts
InitFiles ==
    /\ additional_context = ("a" :> 1)
    /\ context = ("b" :> 2)
    /\ registry \in Registries
    /\ file_data \in Dicts(Attrs, DataVals)
    /\ InitRun

\* a plugin whose _run works on its context view and queues deletions
NextContext ==
    \/ RunEnter
    \/ \E k \in CtxKeys, v \in NewVals : ContextSet(k, v)
    \/ \E k \in CtxKeys : ContextDel(k)
    \/ \E k \in Keys : Delete(k)
    \/ RunRaise
    \/ RunFlush

\* a plugin whose _run works on the registry
NextFiles ==
    \/ RunEnter
    \/ \E k \in Keys : FilesSet(k)
    \/ \E k \in Keys : MarkMatched(k)
    \/ \E k \in Keys : Delete(k)
    \/ RunRaise
    \/ RunFlush

\* one plugin instance run, and run again, against a Breeze instance
SpecContext == InitContext /\ [][NextContext]_vars
SpecFiles == InitFiles /\ [][NextFiles]_vars

\* ------------------------------------- builds of one plugin, in detail
\* the base Plugin._run: raise NotImplementedError, before any statement
NothingExecuted_unchecked == TRUE
NothingExecuted ==
    /\ deletion_queue = <<>>
    /\ changes = EmptyDict
    /\ deletions = <<>>
    /\ matched_files = <<>>
    /\ registry = registry0
\* the plugin's class does not override _run
BaseRun ==
    /\ pc = "_run"
    /\ NothingExecuted
    /\ error' = [kind |-> "NotImplementedError", args |-> <<>>]
    /\ pc' = "failed"
    /\ UNCHANGED <<world, query, tables, setup, heap, files, idx, self_files, began,
                   deletion_queue, out, latest, trace, written, detail>>

\* _command_build, line 208: self._reset()
reset_keeps(ctx, reg) == [context |-> ctx, files |-> reg]
reset(ctx, reg) == [context |-> EmptyDict, files |-> <<>>]
BuildReset ==
    /\ pc \in {"ready", "returned", "failed"}
    /\ context' = reset(context, registry).context
    /\ registry' = reset(context, registry).files
    /\ error' = NoError
    /\ pc' = "reset"
    /\ UNCHANGED <<world, query, tables, setup, heap, files, idx, self_files, began,
                   deletion_queue, out, latest, trace, written,
                   additional_context, file_data, changes, deletions,
                   matched_files, lastop, context0, registry0, nops>>

\* the record build_filelist stores for a file, and what it can find: no
\* file, one file, two files
FoundRecord == ("x" :> 1)
FoundFiles == {<<>>, <<"k1">>, <<"k1", "k2">>}
\* _command_build, line 210: build_filelist stores the files it finds into
\* self.files
RECURSIVE StoreAll(_, _)
StoreAll(reg, ks) ==
    IF ks = <<>> THEN reg
    ELSE StoreAll(SetItem(reg, Head(ks), FoundRecord), Tail(ks))
BuildDiscover ==
    /\ pc = "reset"
    /\ \E found \in FoundFiles : registry' = StoreAll(registry, found)
    /\ pc' = "ready"
    /\ UNCHANGED <<world, query, tables, setup, heap, files, idx, self_files, began,
                   deletion_queue, out, latest, error, trace, written,
                   context, additional_context, file_data, changes,
                   deletions, matched_files, lastop, context0, registry0,
                   nops>>

\* keys a plugin stores records under: the discovered ones and a new one
StoredKeys == Keys \cup {"k3"}

\* a Breeze instance with one plugin, constructed with an additional
\* context and file_data; nothing has been built yet
InitPlugin ==
    /\ additional_context = ("a" :> 1)
    /\ context = EmptyDict
    /\ registry = <<>>
    /\ file_data = ("x" :> 7)
    /\ InitRun

NextBuild ==
    \/ BuildReset
    \/ BuildDiscover
    \/ RunEnter
    \/ BaseRun
    \/ \E k \in CtxKeys : ContextSet(k, 99)
    \/ \E k \in CtxKeys : ContextDel(k)
    \/ \E k \in StoredKeys : FilesSet(k)
    \/ \E k \in Keys : MarkMatched(k)
    \/ \E k \in Keys : Delete(k)
    \/ RunRaise
    \/ RunFlush

\* builds (reset, discovery, runs of the plugin) on one Breeze instance; a
\* run that follows a run stands for the next plugin of the list
SpecPlugin == InitPlugin /\ [][NextBuild]_vars

\* ------------------------------------------------------- Breeze.filelist
\* fnmatch.fnmatch(name, pat) for patterns made of literals, * and ?
RECURSIVE fnmatch(_, _)
fnmatch(name, pat) ==
    IF pat = <<>> THEN name = <<>>
    ELSE IF Head(pat) = "*"
         THEN \/ fnmatch(name, Tail(pat))
              \/ name # <<>> /\ fnmatch(Tail(name), pat)
         ELSE /\ name # <<>>
              /\ Head(pat) = "?" \/ Head(pat) = Head(name)
              /\ fnmatch(Tail(name), Tail(pat))

\* re.match(pat, s) for patterns made of literals and . : a match at the
\* start of s
RECURSIVE re_match(_, _)
re_match(pat, s) ==
    IF pat = <<>> THEN TRUE
    ELSE /\ s # <<>>
         /\ Head(pat) = "." \/ Head(pat) = Head(s)
         /\ re_match(Tail(pat), Tail(s))

\* code points of the characters used
Ord(c) ==
    CASE c = "*" -> 42 [] c = "." -> 46 [] c = "?" -> 63 [] c = "a" -> 97
      [] c = "b" -> 98 [] c = "m" -> 109 [] OTHER -> 116
RECURSIVE StrLess(_, _)
StrLess(s, t) ==
    IF t = <<>> THEN FALSE
    ELSE IF s = <<>> THEN TRUE
    ELSE IF Head(s) = Head(t) THEN StrLess(Tail(s), Tail(t))
    ELSE Ord(Head(s)) < Ord(Head(t))

\* Python 2 orders values of different types: None, then numbers, then strings
TypeRank(v) == CASE v.t = "none" -> 0 [] v.t = "int" -> 1 [] OTHER -> 2
Less(a, b) ==
    IF a.t # b.t THEN TypeRank(a) < TypeRank(b)
    ELSE CASE a.t = "int" -> a.n < b.n
           [] a.t = "str" -> StrLess(a.s, b.s)
           [] OTHER -> FALSE
\* Python 3 orders two integers or two strings and raises TypeError otherwise
Orderable(a, b) == a.t = b.t /\ a.t # "none"

Bool(b) == IF b THEN "T" ELSE "F"
IsError(r) == r \in {"ValueError", "TypeError"}

\* value < test, value <= test, value > test, value >= test
Ordering(op, a, b, py) ==
    IF py = 3 /\ ~Orderable(a, b) THEN "TypeError"
    ELSE CASE op = "lt"  -> Bool(Less(a, b))
           [] op = "lte" -> Bool(Less(a, b) \/ a = b)
           [] op = "gt"  -> Bool(Less(b, a))
           [] OTHER      -> Bool(Less(b, a) \/ a = b)

\* Breeze._compare: "T" or "F", or the exception it raises
compare(key, op, invert, test, data, py) ==
    LET value == IF key \in DOMAIN data THEN data[key] ELSE None
        res ==
            CASE op = "eq" -> Bool(value = test)
              [] op = "ne" -> Bool(value # test)
              [] op \in {"lt", "lte", "gt", "gte"} -> Ordering(op, value, test, py)
              [] op = "re" -> IF test.t = "str" /\ value.t = "str"
                              THEN Bool(re_match(test.s, value.s))
                              ELSE "TypeError"
              [] op = "fn" -> IF test.t = "str" /\ value.t = "str"
                              THEN Bool(fnmatch(value.s, test.s))
                              ELSE "TypeError"
              [] OTHER -> "ValueError"
    IN IF IsError(res) THEN res
       ELSE IF invert THEN Bool(res = "F") ELSE res

\* Breeze._compare_key; a keyword is the list of its parts between "__"
compare_key_noInvert(key, test, data, py) ==
    LET k1 == IF Len(key) >= 2 /\ Head(key) = "not" THEN Tail(key) ELSE key
    IN IF Len(k1) >= 2
       THEN compare(SubSeq(k1, 1, Len(k1) - 1), k1[Len(k1)], FALSE, test, data, py)
       ELSE compare(k1, "eq", FALSE, test, data, py)
compare_key(key, test, data, py) ==
    LET invert == Len(key) >= 2 /\ Head(key) = "not"
        k1 == IF invert THEN Tail(key) ELSE key
    IN IF Len(k1) >= 2
       THEN compare(SubSeq(k1, 1, Len(k1) - 1), k1[Len(k1)], invert, test, data, py)
       ELSE compare(k1, "eq", invert, test, data, py)

\* for key, test in kwargs.items(): stop at the first predicate that fails
RECURSIVE AllPredicates(_, _, _)
AllPredicates(kwargs, data, py) ==
    IF kwargs = <<>> THEN "T"
    ELSE LET r == compare_key(Head(kwargs).key, Head(kwargs).test, data, py)
         IN IF r = "T" THEN AllPredicates(Tail(kwargs), data, py) ELSE r

\* if pattern: a pattern that is None or empty filters nothing
Truthy(v) == v.t = "str" /\ v.s # <<>>

\* one turn of the loop of filelist: "T" yields the item, "F" skips it
Accept(e, c) ==
    IF Truthy(c.pattern) /\ ~fnmatch(e.key, c.pattern.s) THEN "F"
    ELSE AllPredicates(c.kwargs, e.data, c.py)

\* the loop runs from item i to the next yield, the end, or an exception
RECURSIVE Scan(_, _, _)
Scan(reg, i, c) ==
    IF i > Len(reg) THEN [kind |-> "stop", pos |-> i, err |-> NoError]
    ELSE LET a == Accept(reg[i], c)
         IN CASE a = "T" -> [kind |-> "yield", pos |-> i, err |-> NoError]
              [] a = "F" -> Scan(reg, i + 1, c)
              [] OTHER -> [kind |-> "raise", pos |-> i,
                           err |-> [kind |-> a, args |-> <<>>]]

\* next(generator)
QueryNext_consuming ==
    /\ q_state \in {"created", "suspended"}
    /\ LET r == Scan(registry, q_pos, call)
       IN /\ q_pos' = 1
          /\ q_err' = r.err
          /\ q_state' = CASE r.kind = "yield" -> "suspended"
                          [] r.kind = "stop" -> "exhausted"
                          [] OTHER -> "raised"
          /\ q_out' = IF r.kind = "yield" THEN Append(q_out, registry[r.pos])
                      ELSE q_out
          /\ registry' = IF r.kind = "yield"
                         THEN SubSeq(registry, r.pos + 1, Len(registry))
                         ELSE registry
    /\ UNCHANGED <<world, tables, setup, build, context, additional_context,
                   file_data, changes, deletions, matched_files, lastop,
                   context0, registry0, nops, call, q_prev>>
QueryNext ==
    /\ q_state \in {"created", "suspended"}
    /\ LET r == Scan(registry, q_pos, call)
       IN /\ q_pos' = IF r.kind = "yield" THEN r.pos + 1 ELSE r.pos
          /\ q_err' = r.err
          /\ q_state' = CASE r.kind = "yield" -> "suspended"
                          [] r.kind = "stop" -> "exhausted"
                          [] OTHER -> "raised"
          /\ q_out' = IF r.kind = "yield" THEN Append(q_out, registry[r.pos])
                      ELSE q_out
    /\ UNCHANGED <<world, tables, setup, build, detail, call, q_prev>>

\* the consumer drops the generator before its end
QueryClose ==
    /\ q_state \in {"created", "suspended"}
    /\ q_state' = "closed"
    /\ UNCHANGED <<world, tables, setup, build, detail, call, q_pos, q_out, q_err,
                   q_prev>>

\* filelist is called again with the same arguments
QueryAgain ==
    /\ q_state \in {"exhausted", "raised", "closed"}
    /\ q_prev' = IF q_state = "closed" THEN q_prev
                 ELSE [full |-> TRUE, out |-> q_out, err |-> q_err]
    /\ q_state' = "created"
    /\ q_pos' = 1
    /\ q_out' = <<>>
    /\ q_err' = NoError
    /\ UNCHANGED <<world, tables, setup, build, detail, call>>

\* ---- the queries explored
Field == <<"w">>
Ops == {"eq", "ne", "lt", "lte", "gt", "gte", "re", "fn"}
PredKeys ==
    {Field, <<"not">> \o Field}
    \cup {Field \o <<op>> : op \in Ops \cup {"badop"}}
    \cup {<<"not">> \o Field \o <<op>> : op \in Ops \cup {"badop"}}
Tests(key) ==
    IF key[Len(key)] = "fn" THEN {IntVal(2), StrVal(<<"a", "?">>)}
    ELSE {IntVal(2), StrVal(<<"a">>)}
Preds == UNION {{[key |-> k, test |-> t] : t \in Tests(k)} : k \in PredKeys}
Companion == [key |-> Field \o <<"ne">>, test |-> IntVal(5)]
Kwargs ==
    {<<>>} \cup {<<p>> : p \in Preds}
    \cup UNION {{<<p, Companion>>, <<Companion, p>>}
                : p \in {q \in Preds : q.key # Companion.key /\ q.test = IntVal(2)}}
Patterns == {None, StrVal(<<>>), StrVal(<<"*", "m">>), StrVal(<<"?", "t">>)}
Calls == [pattern : Patterns, kwargs : Kwargs, py : PyVersions]

\* the registries queried: files "am" and "bt", whose field w is missing,
\* 1, 5 or the string "ab"
QData == {EmptyDict} \cup {(Field :> v) : v \in {IntVal(1), IntVal(5), StrVal(<<"a", "b">>)}}
QRegistries ==
    {<<>>}
    \cup {<<Item(k, d)>> : k \in {<<"a", "m">>, <<"b", "t">>}, d \in QData}
    \cup {<<Item(<<"a", "m">>, p[1]), Item(<<"b", "t">>, p[2])>> : p \in QData \X QData}
    \cup {<<Item(<<"b", "t">>, p[1]), Item(<<"a", "m">>, p[2])>> : p \in QData \X QData}

\* a Breeze instance with one plugin, a context and a registry, on which
\* filelist has just been called
InitQuery ==
    /\ InitWorld
    /\ requires = [c \in Classes |-> <<>>]
    /\ run_once = [c \in Classes |-> FALSE]
    /\ requirable = [c \in Classes |-> TRUE]
    /\ plugins = <<"P1">>
    /\ once_plugins = <<>>
    /\ last = NoCall
    /\ pc = "config"
    /\ heap = (1 :> <<>>)
    /\ files = 1
    /\ idx = 0
    /\ self_files = 0
    /\ began = <<>>
    /\ deletion_queue = <<>>
    /\ out = 0
    /\ latest = 1
    /\ error = NoError
    /\ trace = <<>>
    /\ written = <<>>
    /\ context = ("b" :> 2)
    /\ registry \in QRegistries
    /\ additional_context = EmptyDict
    /\ file_data = EmptyDict
    /\ changes = EmptyDict
    /\ deletions = <<>>
    /\ matched_files = <<>>
    /\ lastop = [k \in CtxKeys |-> NoOp]
    /\ context0 = context
    /\ registry0 = registry
    /\ nops = 0
    /\ call \in Calls
    /\ q_state = "created"
    /\ q_pos = 1
    /\ q_out = <<>>
    /\ q_err = NoError
    /\ q_prev = NoOutcome

NextQuery ==
    \/ QueryNext
    \/ QueryClose
    \/ QueryAgain

\* one filelist() call consumed step by step, and repeated
SpecQuery == InitQuery /\ [][NextQuery]_vars

\* ------------------------------------------------- Breeze.build_filelist
\* Paths and patterns are sequences of characters.  No entry is a symbolic
\* link and the source is an absolute, normalised path, so that
\* abspath(realpath(p)) is p.
Source == <<"/", "s">>
\* os.path.join(a, b) for a relative b
join(a, b) == a \o <<"/">> \o b
\* os.path.basename(p): what follows the last "/"
RECURSIVE basename(_)
basename(p) ==
    IF \A i \in 1..Len(p) : p[i] # "/" THEN p ELSE basename(Tail(p))
\* os.path.dirname(p): what precedes the last "/"
RECURSIVE dirname(_)
dirname(p) ==
    IF p = <<>> THEN <<>>
    ELSE IF p[Len(p)] = "/" THEN SubSeq(p, 1, Len(p) - 1)
    ELSE dirname(SubSeq(p, 1, Len(p) - 1))
\* os.path.relpath(p, start) for p below start
relpath_absolute(p, start) == p
relpath(p, start) == SubSeq(p, Len(start) + 2, Len(p))

\* the tree under the source: directories d and h, d holding directory g
Dirs == {Source, join(Source, <<"d">>), join(Source, <<"h">>),
         join(join(Source, <<"d">>), <<"g">>)}
isdir(p) == p \in Dirs
Names(d) ==
    CASE d = Source -> {<<"d">>, <<"h">>, <<"b">>, <<"i", ".", "f">>}
      [] d = join(Source, <<"d">>) -> {<<"b", ".", "e">>, <<"g">>, <<"b", ".", "f">>}
      [] d = join(Source, <<"h">>) -> {<<"b">>}
      [] OTHER -> {<<"i", ".", "f">>}
Orders(S) == {s \in NoDupSeqs(S) : Len(s) = Cardinality(S)}
\* os.listdir returns a directory's names in an order of its own
FileSystems ==
    {[d \in Dirs |-> CASE d = Source -> top
                      [] d = join(Source, <<"d">>) -> sub
                      [] OTHER -> CHOOSE s \in Orders(Names(d)) : TRUE] :
        top \in Orders(Names(Source)), sub \in Orders(Names(join(Source, <<"d">>)))}

\* the pattern lists of the configuration
Includes == {<<>>, <<<<"*">>>>, <<<<"/", "s", "/", "d", "*">>, <<"*", "b">>>>}
Excludes == {<<>>, <<<<"*", ".", "e">>, <<"*", "/", "g">>>>}
ExcludeFiles == {<<>>, <<<<"*", ".", "f">>>>, <<<<"?">>>>}
IncludeFiles == {<<>>, <<<<"i", ".", "f">>>>, <<<<"h">>, <<"b">>>>}
Configs == [source : {Source}, include : Includes, exclude : Excludes,
            exclude_files : ExcludeFiles, include_files : IncludeFiles]

\* for pattern in patterns: if fnmatch.fnmatch(name, pattern): ... break
AnyMatch(name, patterns) ==
    \E i \in 1..Len(patterns) : fnmatch(name, patterns[i])

\* (a filter whose include_files list whitelists whatever was thrown out)
is_ok_whitelistsAll(filename, cfg) ==
    \/ /\ AnyMatch(filename, cfg.include)
       /\ ~AnyMatch(filename, cfg.exclude)
       /\ ~AnyMatch(basename(filename), cfg.exclude_files)
    \/ AnyMatch(basename(filename), cfg.include_files)
\* build_filelist, lines 226-252: the value of is_ok at line 254
is_ok(filename, cfg) ==
    LET included == IF AnyMatch(filename, cfg.include) THEN TRUE ELSE FALSE
        kept     == IF included
                    THEN (IF AnyMatch(filename, cfg.exclude) THEN FALSE ELSE TRUE)
                    ELSE FALSE
    IN IF kept
       THEN (IF AnyMatch(basename(filename), cfg.exclude_files)
             THEN (IF AnyMatch(basename(filename), cfg.include_files)
                   THEN TRUE ELSE FALSE)
             ELSE TRUE)
       ELSE FALSE

\* line 262: the record discovery stores under a key
FileRecord(key) == [f \in {"source", "destination"} |-> key]

\* lines 225-263: the for loop over one directory's names; a name that is
\* thrown out is skipped, a directory is queued, a file is stored under its
\* path relative to the source
RECURSIVE ListNames(_, _, _, _, _)
ListNames(names, cur_dir, q, reg, cfg) ==
    IF names = <<>> THEN [queue |-> q, files |-> reg]
    ELSE LET filename == join(cur_dir, Head(names)) IN
         IF ~is_ok(filename, cfg)
         THEN ListNames(Tail(names), cur_dir, q, reg, cfg)
         ELSE IF isdir(filename)
              THEN ListNames(Tail(names), cur_dir, Append(q, filename), reg, cfg)
              ELSE LET key == relpath(filename, cfg.source) IN
                   ListNames(Tail(names), cur_dir, q,
                             SetItem(reg, key, FileRecord(key)), cfg)

\* line 222: queue = [self.config['source']]
BuildFilelist ==
    /\ pc = "config"
    /\ dir_queue' = <<config.source>>
    /\ pc' = "build_filelist"
    /\ UNCHANGED <<calls, ran, serving, tables, setup, heap, files, idx, self_files, began,
                   deletion_queue, out, latest, error, trace, written, detail,
                   query, config, fs, disk, to_write, cwd, blocks, raising, left, ran, serving>>

\* lines 223-263: one turn of the while loop; queue.pop() takes the
\* directory queued last
ListDir ==
    /\ pc = "build_filelist"
    /\ dir_queue # <<>>
    /\ LET cur_dir == dir_queue[Len(dir_queue)]
           r == ListNames(fs[cur_dir], cur_dir,
                          SubSeq(dir_queue, 1, Len(dir_queue) - 1), registry, config)
       IN /\ dir_queue' = r.queue
          /\ registry' = r.files
    /\ UNCHANGED <<calls, ran, serving, tables, setup, build, query, config, fs, disk, to_write,
                   cwd, blocks, raising, left, context, additional_context,
                   file_data, changes, deletions, matched_files, lastop,
                   context0, registry0, nops>>

\* line 223: the queue is empty, build_filelist returns
ListEnd ==
    /\ pc = "build_filelist"
    /\ dir_queue = <<>>
    /\ pc' = "listed"
    /\ UNCHANGED <<tables, setup, heap, files, idx, self_files, began,
                   deletion_queue, out, latest, error, trace, written, detail,
                   query, world>>

\* what no discovery or write looks at
InitAside ==
    /\ requires = [c \in Classes |-> <<>>]
    /\ run_once = [c \in Classes |-> FALSE]
    /\ requirable = [c \in Classes |-> TRUE]
    /\ InitBreeze
    /\ context = EmptyDict
    /\ additional_context = EmptyDict
    /\ file_data = EmptyDict
    /\ changes = EmptyDict
    /\ deletions = <<>>
    /\ matched_files = <<>>
    /\ lastop = [k \in CtxKeys |-> NoOp]
    /\ context0 = EmptyDict
    /\ registry0 = <<>>
    /\ nops = 0
    /\ call = NoQuery
    /\ q_state = "none"
    /\ q_pos = 0
    /\ q_out = <<>>
    /\ q_err = NoError
    /\ q_prev = NoOutcome

\* no InDirectory block is looked at
NoBlocks ==
    /\ cwd = <<>>
    /\ blocks = <<>>
    /\ raising = FALSE
    /\ left = NoExit
    /\ stack = <<>>
    /\ made = <<>>
    /\ NoServer

\* a Breeze instance after _reset, its configuration read, on one tree
InitDiscovery ==
    /\ InitAside
    /\ NoBlocks
    /\ registry = <<>>
    /\ config \in Configs
    /\ fs \in FileSystems
    /\ dir_queue = <<>>
    /\ disk = EmptyDict
    /\ to_write = EmptyDict

NextDiscovery ==
    \/ BuildFilelist
    \/ ListDir
    \/ ListEnd

SpecDiscovery == InitDiscovery /\ [][NextDiscovery]_vars

\* --------------------------------------------------- Breeze.write_output
\* Records carry no _mimetype, so the contents are written as they are
\* (line 319); only files are kept in disk, the directories made for them
\* (lines 299, 307-309) are not.
Destination == <<"/", "o">>
\* d.get(f)
get(d, f) == IF f \in DOMAIN d THEN d[f] ELSE None
\* the truth value of a Python value
IsTrue(v) == (v.t = "int" /\ v.n # 0) \/ (v.t = "str" /\ v.s # <<>>)

\* line 297: {os.path.join(destination, v['destination']): v for v in
\* self.files.values()}; a later record with the same path replaces an
\* earlier one
RECURSIVE ByPath(_, _)
ByPath(reg, dest) ==
    IF reg = <<>> THEN EmptyDict
    ELSE LET v == reg[Len(reg)].data
             p == join(dest, v["destination"].s)
             before == ByPath(SubSeq(reg, 1, Len(reg) - 1), dest)
         IN Put(before, p, v)

\* lines 297-305: the dict of records by output path is built and the
\* destination directory is removed with all it holds
WriteBegin ==
    /\ pc = "config"
    /\ to_write' = ByPath(registry, config.destination)
    /\ disk' = EmptyDict
    /\ pc' = "write_output"
    /\ UNCHANGED <<calls, ran, serving, tables, setup, heap, files, idx, self_files, began,
                   deletion_queue, out, latest, error, trace, written, detail,
                   query, config, fs, dir_queue, cwd, blocks, raising, left, ran, serving>>

\* lines 311-320: one turn of the loop over the dict, whose order is the
\* dict's own; a record with a true skip_write is passed over; the file is
\* opened (created empty) and write(contents) raises TypeError when the
\* record has no _contents
WriteFile ==
    /\ pc = "write_output"
    /\ \E filename \in DOMAIN to_write :
          LET v == to_write[filename]
              contents == get(v, "_contents")
          IN /\ to_write' = Del(to_write, filename)
             /\ IF IsTrue(get(v, "skip_write"))
                THEN UNCHANGED <<disk, pc, error>>
                ELSE IF contents = None
                     THEN /\ disk' = Put(disk, filename, <<>>)
                          /\ error' = [kind |-> "TypeError", args |-> <<>>]
                          /\ pc' = "failed"
                     ELSE /\ disk' = Put(disk, filename, contents.s)
                          /\ UNCHANGED <<pc, error>>
    /\ UNCHANGED <<calls, ran, serving, tables, setup, heap, files, idx, self_files, began,
                   deletion_queue, out, latest, trace, written, detail,
                   query, config, fs, dir_queue, cwd, blocks, raising, left, ran, serving>>

\* line 311: the loop is over, write_output returns
WriteEnd ==
    /\ pc = "write_output"
    /\ to_write = EmptyDict
    /\ pc' = "done"
    /\ UNCHANGED <<tables, setup, heap, files, idx, self_files, began,
                   deletion_queue, out, latest, error, trace, written, detail,
                   query, world>>

\* the records of a final registry: a destination, and maybe a skip_write
\* flag and contents
OutputData ==
    {[f \in fields \cup {"destination"} |->
         CASE f = "destination" -> StrVal(d)
           [] f = "skip_write" -> IntVal(s)
           [] OTHER -> StrVal(c)] :
       fields \in SUBSET {"skip_write", "_contents"},
       d \in {<<"x">>, <<"y">>}, s \in {0, 1}, c \in {<<"A">>, <<"B">>}}
OutputRegistries ==
    {<<>>}
    \cup {<<Item(<<"a">>, d)>> : d \in OutputData}
    \cup {<<Item(<<"a">>, p[1]), Item(<<"b">>, p[2])>> : p \in OutputData \X OutputData}

\* a Breeze instance whose plugins have run, over a destination directory
\* that is absent or holds a file of an earlier build
InitWrite ==
    /\ InitAside
    /\ NoBlocks
    /\ registry \in OutputRegistries
    /\ config = [destination |-> Destination]
    /\ fs = EmptyDict
    /\ dir_queue = <<>>
    /\ disk \in {EmptyDict, (join(Destination, <<"z">>) :> <<"A">>)}
    /\ to_write = EmptyDict

NextWrite ==
    \/ WriteBegin
    \/ WriteFile
    \/ WriteEnd

SpecWrite == InitWrite /\ [][NextWrite]_vars

\* ------------------------------------------------------------ InDirectory
\* A directory is a list of path components with a flag telling whether
\* the path is absolute; the working directory is the list alone.
Abs(p) == [abs |-> TRUE, path |-> p]
Rel(p) == [abs |-> FALSE, path |-> p]
\* None
NoDirectory == Rel(<<>>)
\* the directories that exist
Existing == {<<>>, <<"tmp">>, <<"w">>, <<"w", "tests">>}
\* os.path.join(root, directory)
join_root(root, d) ==
    IF d.abs THEN d ELSE [abs |-> root.abs, path |-> root.path \o d.path]
\* the directory os.chdir(d) leads to from cur
resolve(d, cur) == IF d.abs THEN d.path ELSE cur \o d.path

\* InDirectory.__init__
InDirectory(directory, root) ==
    [original_directory |-> NoDirectory,
     directory |-> IF root # NoDirectory THEN join_root(root, directory)
                   ELSE directory]

\* (an __exit__ that leaves the working directory where the body put it)
exit_stays(obj, cur) == cur
\* InDirectory.__exit__: the working directory after it
exit(obj, cur) ==
    IF obj.original_directory # NoDirectory /\ obj.original_directory.path # cur
    THEN obj.original_directory.path
    ELSE cur

\* with InDirectory(directory, root): __init__ and __enter__; when chdir
\* fails the exception leaves __enter__, the block is not entered and its
\* __exit__ is not called
Enter(directory, root) ==
    /\ ~raising
    /\ Len(blocks) < MaxNest
    /\ LET obj == [InDirectory(directory, root)
                      EXCEPT !.original_directory = Abs(cwd)]
           target == resolve(obj.directory, cwd)
       IN IF target \in Existing
          THEN /\ cwd' = target
               /\ blocks' = Append(blocks, [obj |-> obj, entered |-> cwd])
               /\ UNCHANGED raising
          ELSE /\ raising' = (blocks # <<>>)
               /\ UNCHANGED <<cwd, blocks>>
    /\ UNCHANGED <<calls, ran, serving, tables, setup, build, detail, query, config, fs, dir_queue,
                   disk, to_write, left>>

\* the body of a block changes the working directory
Chdir(d) ==
    /\ ~raising
    /\ blocks # <<>>
    /\ resolve(d, cwd) \in Existing
    /\ cwd' = resolve(d, cwd)
    /\ UNCHANGED <<calls, ran, serving, tables, setup, build, detail, query, config, fs, dir_queue,
                   disk, to_write, blocks, raising, left, ran, serving>>

\* the body of a block raises
Raise ==
    /\ ~raising
    /\ blocks # <<>>
    /\ raising' = TRUE
    /\ UNCHANGED <<calls, ran, serving, tables, setup, build, detail, query, config, fs, dir_queue,
                   disk, to_write, cwd, blocks, left>>

\* the body of an enclosing block catches the exception
Catch ==
    /\ raising
    /\ blocks # <<>>
    /\ raising' = FALSE
    /\ UNCHANGED <<calls, ran, serving, tables, setup, build, detail, query, config, fs, dir_queue,
                   disk, to_write, cwd, blocks, left>>

\* the innermost block is left, by the end of its body or by the exception;
\* __exit__ returns None, so the exception goes on to the enclosing block
Exit ==
    /\ blocks # <<>>
    /\ LET top == blocks[Len(blocks)]
           rest == SubSeq(blocks, 1, Len(blocks) - 1)
       IN /\ cwd' = exit(top.obj, cwd)
          /\ blocks' = rest
          /\ raising' = (raising /\ rest # <<>>)
          /\ left' = [by |-> IF raising THEN "exception" ELSE "return",
                      nested |-> rest # <<>>,
                      entered |-> top.entered,
                      before |-> cwd,
                      after |-> cwd']
    /\ UNCHANGED <<calls, ran, serving, tables, setup, build, detail, query, config, fs, dir_queue,
                   disk, to_write>>

\* the arguments InDirectory is constructed with: an absolute directory, a
\* relative one, one that does not exist; no root or a root
Directories == {Abs(<<"tmp">>), Rel(<<"tests">>), Abs(<<"nope">>)}
Roots == {NoDirectory, Abs(<<"w">>)}

\* a process in some directory, outside any block
InitInDir ==
    /\ InitAside
    /\ registry = <<>>
    /\ config = EmptyDict
    /\ fs = EmptyDict
    /\ dir_queue = <<>>
    /\ disk = EmptyDict
    /\ to_write = EmptyDict
    /\ cwd \in {<<>>, <<"w">>}
    /\ blocks = <<>>
    /\ raising = FALSE
    /\ left = NoExit
    /\ stack = <<>>
    /\ made = <<>>
    /\ NoServer

NextInDir ==
    \/ \E directory \in Directories, root \in Roots : Enter(directory, root)
    \/ \E d \in Directories \cup {Abs(<<>>), Abs(<<"w">>)} : Chdir(d)
    \/ Raise
    \/ Catch
    \/ Exit

SpecInDir == InitInDir /\ [][NextInDir]_vars

\* ------------------------------------------- Breeze.plugin, call by call
\* One plugin() call followed through its recursion: every frame of stack
\* is a plugin() call whose _plugin_require loop stands before the
\* requirement number pos.
Frame(c, asType, py) == [cls |-> c, asType |-> asType, py |-> py, pos |-> 1]
\* (a loop that takes the same requirement again)
next_requirement_again(pos) == pos
\* for sub_plugin_class in plugin.requires(): the loop moves on
next_requirement(pos) == pos + 1

\* b.plugin(x) is called by the configuration script
PluginCall(c, asType, py) ==
    /\ pc = "config"
    /\ stack = <<>>
    /\ Len(plugins) < MaxRun
    /\ stack' = <<Frame(c, asType, py)>>
    /\ made' = <<>>
    /\ error' = NoError
    /\ UNCHANGED <<tables, setup, pc, heap, files, idx, self_files, began,
                   deletion_queue, out, latest, trace, written, detail, query,
                   config, fs, dir_queue, disk, to_write, cwd, blocks,
                   raising, left, ran, serving>>

\* _plugin_require, lines 266-272: the innermost call takes its next
\* requirement; a class that cannot be required raises through every call
\* in progress (as TypeError under Python 3, where e[0] fails in the first
\* handler), otherwise the class is instantiated and plugin() is called on
\* the instance
RequireNext ==
    /\ stack # <<>>
    /\ Len(stack) < MaxDepth
    /\ LET top == stack[Len(stack)]
           reqs == requires[top.cls]
       IN /\ top.pos <= Len(reqs)
          /\ IF ~Requirable(reqs[top.pos])
             THEN /\ stack' = <<>>
                  /\ error' = [kind |-> IF top.py = 2 THEN "NotRequirableError"
                                        ELSE "TypeError",
                               args |-> <<>>]
                  /\ UNCHANGED made
             ELSE /\ stack' = Append(
                        [stack EXCEPT ![Len(stack)].pos = next_requirement(@)],
                        Frame(reqs[top.pos], FALSE, top.py))
                  /\ made' = Append(made, reqs[top.pos])
                  /\ UNCHANGED error
    /\ UNCHANGED <<tables, setup, pc, heap, files, idx, self_files, began,
                   deletion_queue, out, latest, trace, written, detail, query,
                   config, fs, dir_queue, disk, to_write, cwd, blocks,
                   raising, left, ran, serving>>

\* plugin, lines 279-288: the requirements of the innermost call are
\* resolved; a class object is instantiated, an instance of a run_once class
\* already registered is dropped, any other is appended; the call returns
RegisterSelf ==
    /\ stack # <<>>
    /\ LET top == stack[Len(stack)]
           st  == [plugins |-> plugins, once |-> once_plugins]
           r   == IF run_once[top.cls]
                  THEN IF AlreadyOnce(st, top.cls) THEN st
                       ELSE Register(Remember(st, top.cls), top.cls)
                  ELSE Register(st, top.cls)
       IN /\ top.pos > Len(requires[top.cls])
          /\ made' = IF top.asType THEN Append(made, top.cls) ELSE made
          /\ plugins' = r.plugins
          /\ once_plugins' = r.once
          /\ stack' = SubSeq(stack, 1, Len(stack) - 1)
    /\ UNCHANGED <<tables, last, build, detail, query, config, fs, dir_queue,
                   disk, to_write, cwd, blocks, raising, left, ran, serving>>

\* requires() tables with a cycle: a class requiring itself, two classes
\* requiring each other
CyclicTables ==
    {[c \in Classes |-> CASE c = "P1" -> <<"P1">> [] c = "P2" -> <<>>
                          [] OTHER -> <<"P2">>],
     [c \in Classes |-> CASE c = "P1" -> <<"P2">> [] c = "P2" -> <<"P1">>
                          [] OTHER -> <<>>]}
AcyclicTables ==
    {f \in [Classes -> UNION {ReqLists(c) : c \in Classes}] :
        \A c \in Classes : f[c] \in ReqLists(c)}

\* a new Breeze instance and any class table, with or without a cycle
InitResolve ==
    /\ requires \in AcyclicTables \cup CyclicTables
    /\ run_once \in [Classes -> BOOLEAN]
    /\ requirable \in {[c \in Classes |-> TRUE], [c \in Classes |-> c # "P1"]}
    /\ InitBreeze
    /\ InitIdle

NextResolve ==
    \/ \E c \in Classes, asType \in BOOLEAN, py \in PyVersions : PluginCall(c, asType, py)
    \/ RequireNext
    \/ RegisterSelf

\* the interpreter goes on executing a call that has a next statement
SpecResolve ==
    InitResolve /\ [][NextResolve]_vars /\ WF_vars(RequireNext \/ RegisterSelf)

\* ------------------------------------------------------- the stock plugins
\* Match, Weighted and Concat of plugins/files.py and Data of
\* plugins/parsing.py, each run by one turn of the run_plugins loop on a
\* registry whose keys, masks and contents are lists of characters.  A
\* parsed mapping is the list of its (key, value) items, a parsed JSON array
\* is ListVal.
DictVal(items) == [t |-> "dict", n |-> 0, s |-> items]
ListVal == [t |-> "list", n |-> 0, s |-> <<>>]
NoReturn == [given |-> FALSE, files |-> <<>>]
Return(reg) == [given |-> TRUE, files |-> reg]
AttributeError == [kind |-> "AttributeError", args |-> <<>>]

\* re.split(r'[^\w\d]+', mask)[-1]: what follows the last character that is
\* neither a letter nor a digit
IsWord(c) == c \notin {"*", "?", ".", "/"}
RECURSIVE LastWord(_)
LastWord(s) ==
    IF s = <<>> \/ ~IsWord(s[Len(s)]) THEN <<>>
    ELSE Append(LastWord(SubSeq(s, 1, Len(s) - 1)), s[Len(s)])

\* the constructors: Plugin.__init__, Match.__init__, Concat.__init__,
\* Data.__init__
Instance(cls) ==
    [cls |-> cls, mask |-> None, name |-> "", dest |-> <<>>,
     filetype |-> <<>>, merge_data |-> TRUE, encapsulate_js |-> TRUE,
     dir_name |-> <<>>, file_data |-> EmptyDict]
NewMatch(mask, fd) == [Instance("Match") EXCEPT !.mask = mask, !.file_data = fd]
NewWeighted == Instance("Weighted")
NewConcat(name, dest, mask, filetype, merge_data, encapsulate_js) ==
    [Instance("Concat") EXCEPT
        !.name = name, !.dest = dest, !.mask = StrVal(mask),
        !.filetype = IF filetype # <<>> THEN filetype ELSE LastWord(mask),
        !.merge_data = merge_data, !.encapsulate_js = encapsulate_js]
NewData(dir_name) == [Instance("Data") EXCEPT !.dir_name = dir_name]

\* list(self.breeze_instance.filelist(pattern)): the items the generator
\* yields when no keyword predicate is given
filelist(reg, pattern) ==
    SelectSeq(reg, LAMBDA e : ~(Truthy(pattern) /\ ~fnmatch(e.key, pattern.s)))

\* what a _run leaves when it ends: the registry object it worked on, the
\* changes of its context view, its deletion queue, its matched files, the
\* value it returns and the exception it raises
Ended(reg, chg, q, m, ret, err) ==
    [reg |-> reg, changes |-> chg, queue |-> q, matched |-> m, ret |-> ret,
     err |-> err]

\* self.mark_matched(k) for every k of ks: each call changes the one record
\* it names
MarkAll(reg, ks, fd) ==
    [i \in 1..Len(reg) |->
        IF reg[i].key \in Range(ks) THEN mark_matched(reg, reg[i].key, fd)[i]
        ELSE reg[i]]
\* Match._run: for filename, file_data in filelist(self.mask):
\*                 self.mark_matched(filename)
Match_run(p, reg) ==
    LET ks == KeysOf(filelist(reg, p.mask))
    IN Ended(MarkAll(reg, ks, p.file_data), EmptyDict, <<>>, ks, NoReturn,
             NoError)

\* (a sort that counts a missing weight as 0)
Weight_missingFirst(d) == IF "weight" \in DOMAIN d THEN d["weight"].n ELSE 0
\* key=lambda v: v[1].get('weight', 1000), for weights that are integers
Weight(d) == IF "weight" \in DOMAIN d THEN d["weight"].n ELSE 1000
\* sorted(items, key=Weight, reverse=False): a stable sort, each item behind
\* the lighter items and behind the earlier items of its weight
sorted(items) ==
    LET place(i) ==
            Cardinality({j \in 1..Len(items) :
                \/ Weight(items[j].data) < Weight(items[i].data)
                \/ j < i /\ Weight(items[j].data) = Weight(items[i].data)}) + 1
    IN [k \in 1..Len(items) |->
            items[CHOOSE i \in 1..Len(items) : place(i) = k]]
\* Weighted._run: return OrderedDict(sorted(self.files.items(), ...))
Weighted_run(p, reg) ==
    Ended(reg, EmptyDict, <<>>, <<>>, Return(sorted(reg)), NoError)

\* "\n".join(new_contents)
RECURSIVE Joined(_)
Joined(parts) ==
    IF parts = <<>> THEN <<>>
    ELSE IF Len(parts) = 1 THEN parts[1]
    ELSE parts[1] \o <<"\n">> \o Joined(Tail(parts))
\* '(function() {\n\n' + contents + '\n\n})();' : each of the two literals
\* stands as one element of the list
Closure(contents) == <<"(function() {\n\n">> \o contents \o <<"\n\n})();">>
\* file_data.get('_contents') or ''
ContentsOf(d) ==
    IF IsTrue(get(d, "_contents")) THEN get(d, "_contents").s ELSE <<>>

\* d1.update(d2).update(d3)... of the records of a list, in order: a field
\* has the value of the last record that holds it
UpdateAll(items) ==
    [f \in UNION {DOMAIN items[i].data : i \in 1..Len(items)} |->
        LET last_one == CHOOSE i \in 1..Len(items) :
                /\ f \in DOMAIN items[i].data
                /\ \A j \in (i + 1)..Len(items) : f \notin DOMAIN items[j].data
        IN items[last_one].data[f]]
\* Concat._run, lines 131-140: the loop over self.files.items() marks each
\* record whose key matches, merges its data, takes its contents and queues
\* its key
ConcatLoop(p, reg) ==
    LET hit(e) == fnmatch(e.key, p.mask.s)
        queue == KeysOf(SelectSeq(reg, hit))
        marked == MarkAll(reg, queue, p.file_data)
        taken == SelectSeq(marked, hit)
        contents(d) == IF p.filetype = <<"j", "s">> /\ p.encapsulate_js
                       THEN Closure(ContentsOf(d)) ELSE ContentsOf(d)
    IN [reg |-> marked,
        new_data |-> IF p.merge_data THEN UpdateAll(taken) ELSE EmptyDict,
        new_contents |-> [i \in 1..Len(taken) |-> contents(taken[i].data)],
        queue |-> queue]
\* Concat._run
Concat_run(p, reg) ==
    LET l == ConcatLoop(p, reg)
        new_data == Put(Put(l.new_data, "destination", StrVal(p.dest)),
                        "_contents", StrVal(Joined(l.new_contents)))
    IN Ended(SetItem(l.reg, p.dest, new_data), (p.name :> StrVal(p.dest)),
             l.queue, l.queue, NoReturn, NoError)

\* MergedDict.update(other), for k, v in other.items(): self[k] = v, with
\* the parsed contents of each record of a list in turn: a key has the value
\* of its last item in the last record that holds it
Holds(items, k) == \E j \in 1..Len(items) : items[j][1] = k
Held(items, k) ==
    items[CHOOSE j \in 1..Len(items) :
            /\ items[j][1] = k
            /\ \A l \in (j + 1)..Len(items) : items[l][1] # k][2]
Parsed(e) == e.data["_contents_parsed"].s
UpdateFrom(recs) ==
    [k \in UNION {{Parsed(recs[i])[j][1] : j \in 1..Len(Parsed(recs[i]))}
                  : i \in 1..Len(recs)} |->
        LET last_one == CHOOSE i \in 1..Len(recs) :
                /\ Holds(Parsed(recs[i]), k)
                /\ \A j \in (i + 1)..Len(recs) : ~Holds(Parsed(recs[j]), k)
        IN Held(Parsed(recs[last_one]), k)]
\* os.path.join(self.dir_name, '*')
DataPattern(dir_name) == join(dir_name, <<"*">>)
\* Data._run: the loop over filelist(os.path.join(self.dir_name, '*'))
\* updates the context with the parsed contents that are not None and
\* queues the key; parsed contents without items() end it with an
\* AttributeError
Data_run(p, reg) ==
    LET matched == filelist(reg, StrVal(DataPattern(p.dir_name)))
        parsed(i) == get(matched[i].data, "_contents_parsed")
        bad == {i \in 1..Len(matched) : parsed(i).t \notin {"none", "dict"}}
        stop == IF bad = {} THEN Len(matched) + 1
                ELSE CHOOSE i \in bad : \A j \in bad : i <= j
        taken == SelectSeq(SubSeq(matched, 1, stop - 1),
                           LAMBDA e : get(e.data, "_contents_parsed").t = "dict")
    IN Ended(reg, UpdateFrom(taken), KeysOf(taken), <<>>, NoReturn,
             IF bad = {} THEN NoError ELSE AttributeError)

\* plugin._run() of the four classes
StockRun(p, reg) ==
    CASE p.cls = "Match" -> Match_run(p, reg)
      [] p.cls = "Weighted" -> Weighted_run(p, reg)
      [] p.cls = "Concat" -> Concat_run(p, reg)
      [] OTHER -> Data_run(p, reg)

\* run_plugins, lines 291-294, one turn of the loop with plugin p:
\* Plugin.run (the view is made, _run is called, the changes are merged, the
\* queued keys are deleted), then a registry that was returned is adopted;
\* an exception of _run ends the build
TurnFlushed(p, r, d) ==
    /\ pc = "run_plugins"
    /\ Len(ran) < MaxStock
    /\ ran' = Append(ran, p)
    /\ context0' = context
    /\ registry0' = registry
    /\ deletion_queue' = r.queue
    /\ matched_files' = r.matched
    /\ changes' = r.changes
    /\ IF r.err # NoError
       THEN /\ error' = r.err
            /\ pc' = "failed"
            /\ registry' = r.reg
            /\ UNCHANGED context
       ELSE /\ context' = merge_changes(context, r.changes, <<>>)
            /\ error' = d.err
            /\ pc' = IF d.err = NoError THEN pc ELSE "failed"
            /\ registry' = IF d.err = NoError /\ r.ret.given
                           THEN r.ret.files ELSE d.reg
    /\ UNCHANGED <<tables, setup, heap, files, idx, self_files, began, out,
                   latest, trace, written, additional_context, file_data,
                   deletions, lastop, nops, query, config, fs, dir_queue,
                   disk, to_write, cwd, blocks, raising, left, calls,
                   serving>>
TurnEnds(p, r) == TurnFlushed(p, r, DeleteQueued(r.reg, r.queue))
Turn(p) == TurnEnds(p, StockRun(p, registry))

\* ---- the plugins and registries explored
AJs == <<"a", ".", "j", "s">>
BJs == <<"b", ".", "j", "s">>
Txt == <<"c">>
DirA == <<"d", "/", "a">>
DirB == <<"d", "/", "b">>
Matches ==
    {NewMatch(m, ("x" :> IntVal(7)))
     : m \in {None, StrVal(<<>>), StrVal(<<"*", ".", "j", "s">>)}}
Concats ==
    {NewConcat("n", d, <<"*", ".", "j", "s">>, <<>>, TRUE, e)
     : d \in {<<"o">>, AJs, Txt}, e \in BOOLEAN}
    \cup {NewConcat("n", <<"o">>, <<"?", "*">>, <<"j", "s">>, FALSE, TRUE)}
Datas == {NewData(<<"d">>), NewData(<<"c">>)}

\* records: contents "A" or "B" or none, a weight of 5, 1000, 2000 or none,
\* parsed contents that are a mapping, an array, None or missing
Texts == {EmptyDict, ("_contents" :> StrVal(<<"A">>)),
          ("_contents" :> StrVal(<<"B">>) @@ "weight" :> IntVal(5))}
Weights == {EmptyDict} \cup {("weight" :> IntVal(w)) : w \in {5, 1000, 2000}}
Parsings ==
    {EmptyDict, ("_contents_parsed" :> None), ("_contents_parsed" :> ListVal),
     ("_contents_parsed" :> DictVal(<<<<"a", IntVal(1)>>>>)),
     ("_contents_parsed" :> DictVal(<<<<"b", IntVal(2)>>, <<"a", IntVal(3)>>>>))}
StockRegistries ==
    {<<>>}
    \cup {<<Item(k[1], d[1]), Item(k[2], d[2]), Item(k[3], d[3])>>
          : k \in {<<AJs, Txt, BJs>>, <<Txt, BJs, AJs>>},
            d \in Texts \X {EmptyDict} \X Texts}
    \cup {<<Item(AJs, d[1]), Item(BJs, d[2]), Item(Txt, d[3])>>
          : d \in Weights \X Weights \X {EmptyDict, ("weight" :> IntVal(5))}}
    \cup {<<Item(DirA, d[1]), Item(Txt, d[2]), Item(DirB, d[3])>>
          : d \in Parsings \X {("_contents_parsed" :> DictVal(<<<<"c", IntVal(9)>>>>))}
                  \X Parsings}

\* run_plugins is about to run stock plugins on a registry that discovery
\* and earlier plugins have filled, with a context some of them wrote
InitStock ==
    /\ requires = [c \in Classes |-> <<>>]
    /\ run_once = [c \in Classes |-> FALSE]
    /\ requirable = [c \in Classes |-> TRUE]
    /\ plugins = <<>>
    /\ once_plugins = <<>>
    /\ last = NoCall
    /\ pc = "run_plugins"
    /\ heap = (1 :> <<>>)
    /\ files = 1
    /\ idx = 0
    /\ self_files = 0
    /\ began = <<>>
    /\ deletion_queue = <<>>
    /\ out = 0
    /\ latest = 1
    /\ error = NoError
    /\ trace = <<>>
    /\ written = <<>>
    /\ context = ("a" :> IntVal(0) @@ "q" :> IntVal(0))
    /\ registry \in StockRegistries
    /\ additional_context = EmptyDict
    /\ file_data = EmptyDict
    /\ changes = EmptyDict
    /\ deletions = <<>>
    /\ matched_files = <<>>
    /\ lastop = [k \in CtxKeys |-> NoOp]
    /\ context0 = context
    /\ registry0 = registry
    /\ nops = 0
    /\ call = NoQuery
    /\ q_state = "none"
    /\ q_pos = 0
    /\ q_out = <<>>
    /\ q_err = NoError
    /\ q_prev = NoOutcome
    /\ config = EmptyDict
    /\ fs = EmptyDict
    /\ dir_queue = <<>>
    /\ disk = EmptyDict
    /\ to_write = EmptyDict
    /\ NoBlocks

\* one turn of the loop with an instance of each class
MatchTurn(p) ==
    /\ p.cls = "Match"
    /\ Turn(p)
WeightedTurn(p) ==
    /\ p.cls = "Weighted"
    /\ Turn(p)
ConcatTurn(p) ==
    /\ p.cls = "Concat"
    /\ Turn(p)
DataTurn(p) ==
    /\ p.cls = "Data"
    /\ Turn(p)
NextStock ==
    \/ \E p \in Matches : MatchTurn(p)
    \/ WeightedTurn(NewWeighted)
    \/ \E p \in Concats : ConcatTurn(p)
    \/ \E p \in Datas : DataTurn(p)

SpecStock == InitStock /\ [][NextStock]_vars

\* ------------------------------------------------------- Breeze._command_run
\* The development server: a socketserver.TCPServer whose handler class
\* builds the site before it answers a GET.  Time is counted in seconds and
\* never runs backwards; the build itself is _command_build, which takes
\* time and returns or raises.
Day == 86400
Start == Day
Intervals == {0, 2, 3}
\* what SimpleHTTPRequestHandler.do_GET answers
Statuses == {200, 404}
Handler == [phase |-> "do_GET", built |-> "none", at |-> 0]
Building == {i \in 1..Len(handlers) : handlers[i].phase = "build"}
Without(s, i) == SubSeq(s, 1, i - 1) \o SubSeq(s, i + 1, Len(s))
Others == <<tables, setup, build, detail, query, config, fs, dir_queue, disk,
            to_write, cwd, blocks, raising, left, calls, ran>>

\* a second goes by
Tick ==
    /\ now < Start + MaxTime
    /\ now' = now + 1
    /\ UNCHANGED <<Others, last_build, pending, handlers, served>>

\* a client connects and sends a GET
Connect ==
    /\ pending + Len(handlers) + Len(served) < MaxRequests
    /\ pending' = pending + 1
    /\ UNCHANGED <<Others, now, last_build, handlers, served>>

\* (a server that handles each request in a thread of its own)
handle_request_threading ==
    /\ pending > 0
    /\ pending' = pending - 1
    /\ handlers' = Append(handlers, Handler)
    /\ UNCHANGED <<Others, now, last_build, served>>

\* TCPServer.serve_forever: the next connection is accepted when the
\* request before it has been handled to its end, and its handler is
\* constructed
handle_request ==
    /\ handlers = <<>>
    /\ pending > 0
    /\ pending' = pending - 1
    /\ handlers' = Append(handlers, Handler)
    /\ UNCHANGED <<Others, now, last_build, served>>

\* do_GET, line 182: a build is due when build_interval seconds have gone
\* by since _last_build
DoGet(i) ==
    /\ handlers[i].phase = "do_GET"
    /\ handlers' = [handlers EXCEPT ![i].phase =
                      IF now - last_build >= config.build_interval
                      THEN "build" ELSE "serve",
                                    ![i].at = now]
    /\ UNCHANGED <<Others, now, last_build, pending, served>>

\* do_GET, lines 184-185: _command_build returned
BuildReturns(i) ==
    /\ handlers[i].phase = "build"
    /\ last_build' = now
    /\ handlers' = [handlers EXCEPT ![i].phase = "serve", ![i].built = "ok",
                                    ![i].at = now]
    /\ UNCHANGED <<Others, now, pending, served>>

\* do_GET, lines 186-194: _command_build raised an Exception; the traceback
\* is sent with status 500 and do_GET returns
BuildRaises(i) ==
    /\ handlers[i].phase = "build"
    /\ served' = Append(served, [status |-> 500, built |-> "raised",
                                 at |-> now])
    /\ handlers' = Without(handlers, i)
    /\ UNCHANGED <<Others, now, last_build, pending>>

\* do_GET, line 195: the file is served from the destination directory
ServeFile(i, status) ==
    /\ handlers[i].phase = "serve"
    /\ served' = Append(served, [status |-> status,
                                 built |-> handlers[i].built,
                                 at |-> handlers[i].at])
    /\ handlers' = Without(handlers, i)
    /\ UNCHANGED <<Others, now, last_build, pending>>

\* _command_run, lines 178-179 and 197-201: the server has been started
InitServe ==
    /\ InitAside
    /\ registry = <<>>
    /\ config \in {[build_interval |-> n] : n \in Intervals}
    /\ fs = EmptyDict
    /\ dir_queue = <<>>
    /\ disk = EmptyDict
    /\ to_write = EmptyDict
    /\ cwd = <<>>
    /\ blocks = <<>>
    /\ raising = FALSE
    /\ left = NoExit
    /\ stack = <<>>
    /\ made = <<>>
    /\ ran = <<>>
    /\ now = Start
    /\ last_build = now - Day
    /\ pending = 0
    /\ handlers = <<>>
    /\ served = <<>>

NextServe ==
    \/ Tick
    \/ Connect
    \/ handle_request
    \/ \E i \in 1..Len(handlers) : DoGet(i)
    \/ \E i \in 1..Len(handlers) : BuildReturns(i)
    \/ \E i \in 1..Len(handlers) : BuildRaises(i)
    \/ \E i \in 1..Len(handlers), status \in Statuses : ServeFile(i, status)

SpecServe == InitServe /\ [][NextServe]_vars

\* ------------------------------------------------------- shared vocabulary
Count(s, c) == Cardinality({i \in 1..Len(s) : s[i] = c})
IsPrefix(s, t) == Len(s) <= Len(t) /\ \A i \in 1..Len(s) : s[i] = t[i]
Positions(c) == {i \in 1..Len(plugins) : plugins[i] = c}
RECURSIVE TransReq(_)
TransReq(c) ==
    Range(requires[c]) \cup UNION {TransReq(d) : d \in Range(requires[c])}
\* run() calls made on instances of class c in the current run_plugins pass
RunsOf(c) == {j \in 1..Len(trace) : trace[j].ev = "run" /\ plugins[trace[j].i] = c}
LoopOver == pc = "done" \/ (pc = "run_plugins" /\ idx > Len(plugins))
\* the events of a pass over n plugins: run 1, return 1, run 2, return 2, ...
EventAt(j) == [ev |-> IF j % 2 = 1 THEN "run" ELSE "ret", i |-> (j + 1) \div 2]
Follows(t, n) ==
    /\ Len(t) <= 2 * n
    /\ \A j \in 1..Len(t) : t[j].ev = EventAt(j).ev /\ t[j].i = EventAt(j).i

\* C1: run_plugins calls run once on every entry of the plugin list, in list
\* order, and calls the next run only after the previous one has returned:
\* the events of a pass are always a prefix of run 1, return 1, run 2, ...,
\* and the pass ends with all 2 * Len(plugins) of them.
C1_RunsInListOrder ==
    /\ Follows(trace, Len(plugins))
    /\ LoopOver => Len(trace) = 2 * Len(plugins)
    /\ pc = "_run" => Len(trace) = 2 * idx - 1
C1_Witness ==
    /\ pc = "done"
    /\ Len(plugins) = 3
    /\ plugins[1] \in Range(requires[plugins[2]])
    /\ Len(trace) = 6

\* C2 as stated: below every list entry sit instances of all its transitive
\* requirements, and of two sibling requirements the one declared first has
\* an instance before an instance of the one declared second.
SiblingsInOrder(j, strict) ==
    LET reqs == requires[plugins[j]] IN
    \A a, b \in 1..Len(reqs) : a < b =>
        \/ \E i1, i2 \in 1..(j - 1) :
               i1 < i2 /\ plugins[i1] = reqs[a] /\ plugins[i2] = reqs[b]
        \/ ~strict /\ run_once[reqs[b]]
RequirementsFirst(j) ==
    \A d \in TransReq(plugins[j]) : \E i \in 1..(j - 1) : plugins[i] = d
C2_Original ==
    \A j \in 1..Len(plugins) : RequirementsFirst(j) /\ SiblingsInOrder(j, TRUE)
\* C2 amended: every list entry has instances of all its transitive
\* requirements before it (so each required type sits after its own
\* requirements), and sibling requirements are in declared order except
\* that a run_once sibling registered earlier keeps its earlier position.
C2_RequirementsFirst ==
    \A j \in 1..Len(plugins) : RequirementsFirst(j) /\ SiblingsInOrder(j, FALSE)
C2_Witness ==
    /\ last.cls = "P3" /\ last.err = NoError
    /\ requires["P3"] = <<"P1", "P2">> /\ requires["P2"] = <<"P1">>
    /\ ~run_once["P1"]
    /\ plugins = <<"P1", "P1", "P2", "P3">>

\* C3: the plugin list never holds two instances of a run_once class; a
\* plugin() call with a run_once class that is already registered adds no
\* instance of it, and no pass runs a run_once class twice.
C3_RunOnce ==
    \A c \in Classes : run_once[c] =>
        /\ Count(plugins, c) <= 1
        /\ Count(once_plugins, c) = Count(plugins, c)
        /\ (last.cls = c /\ c \in Range(last.onceBefore)) =>
               Count(plugins, c) = Count(last.before, c)
        /\ pc # "config" => Cardinality(RunsOf(c)) <= 1
C3_Witness ==
    /\ pc = "config"
    /\ last.cls # "none" /\ run_once[last.cls]
    /\ last.cls \in Range(last.onceBefore)
    /\ last.err = NoError
    /\ Count(plugins, last.cls) = 1

\* C4 as stated: a type required by two different entries of the plugin
\* list is registered once, before the first of them, and run once per pass.
Requesters(r) == {i \in 1..Len(plugins) : r \in Range(requires[plugins[i]])}
SharedOnce(r) ==
    /\ Count(plugins, r) = 1
    /\ \A p \in Positions(r), i \in Requesters(r) : p < i
    /\ LoopOver => Cardinality(RunsOf(r)) = 1
C4_Original ==
    \A r \in Classes : Cardinality(Requesters(r)) >= 2 => SharedOnce(r)
\* C4 amended: the same, for a prerequisite type that is run_once.
C4_SharedRunOncePrerequisite ==
    \A r \in Classes :
        (run_once[r] /\ Cardinality(Requesters(r)) >= 2) => SharedOnce(r)
C4_Witness ==
    /\ pc = "done"
    /\ plugins = <<"P1", "P2", "P3">>
    /\ run_once["P1"]
    /\ requires["P2"] = <<"P1">> /\ requires["P3"] = <<"P1">>
    /\ Cardinality(RunsOf("P1")) = 1

\* ------------------------------------------ requirement chains that fail
\* c has a type with requirable = False among its transitive requirements
RECURSIVE Doomed(_)
Doomed(c) == \E d \in Range(requires[c]) : ~requirable[d] \/ Doomed(d)
\* the chain walked by plugin(c) down to the first type that cannot be
\* required: c, the requesters below it, the unrequirable type
RECURSIVE FailPath(_)
FailPath(c) ==
    LET reqs  == requires[c]
        bad   == {k \in 1..Len(reqs) : ~requirable[reqs[k]] \/ Doomed(reqs[k])}
        first == CHOOSE k \in bad : \A m \in bad : k <= m
    IN IF ~requirable[reqs[first]] THEN <<c, reqs[first]>>
       ELSE <<c>> \o FailPath(reqs[first])
DoomedCall == last.cls # "none" /\ Doomed(last.cls)

\* C5: a plugin() call with a run_once class that is already registered
\* raises nothing and leaves Breeze.plugins and Breeze.once_plugins as they
\* were before the call.
C5_DuplicateIsNoOp ==
    (last.cls # "none" /\ run_once[last.cls]
        /\ last.cls \in Range(last.onceBefore)) =>
        /\ last.err = NoError
        /\ plugins = last.before
        /\ once_plugins = last.onceBefore

\* C6: when the argument of plugin() has an unrequirable type among its
\* transitive requirements, the call raises NotRequirableError and the
\* error's arguments name the unrequirable type and every requester of the
\* chain, up to the class of the argument itself.
C6_ErrorNamesChain ==
    DoomedCall =>
        /\ last.err.kind = "NotRequirableError"
        /\ Range(FailPath(last.cls)) \subseteq Range(Tail(last.err.args))

\* C7: a plugin() call that fails on an unrequirable type never constructs
\* that type, and appends to the plugin list neither that type nor the
\* argument of the call nor any requester between the two.
C7_FailedCallAddsNoChainMember ==
    DoomedCall =>
        LET path == FailPath(last.cls) IN
        /\ last.err # NoError
        /\ path[Len(path)] \notin Range(last.loaded)
        /\ IsPrefix(last.before, plugins)
        /\ \A i \in (Len(last.before) + 1)..Len(plugins) :
               plugins[i] \notin Range(path)
C7_Witness ==
    /\ DoomedCall
    /\ Len(FailPath(last.cls)) = 3
    /\ last.loaded = <<"P2">>
    /\ last.before = <<"P1">>
    /\ plugins = <<"P1">>

\* C8: whatever keys of the registry _run queues with delete(), each of
\* them is still in the registry while _run is running, and once _run has
\* returned normally run returns normally too (no KeyError comes out of
\* the envelope) and none of the queued keys is in the registry.
C8_DeferredDeletes ==
    Range(deletion_queue) \subseteq Range(began) =>
        /\ pc = "_run" => Range(deletion_queue) \subseteq Range(heap[self_files])
        /\ error.kind # "KeyError"
        /\ (pc = "run_plugins" /\ idx > 1) =>
               Range(deletion_queue) \cap Range(heap[self_files]) = {}

\* C9: the live registry is always the one returned by the latest run of
\* this pass that returned a registry (the discovered one when none did);
\* a running plugin is bound to the live registry, and the writer is handed
\* the live registry.
C9_RegistryThreaded ==
    /\ files = latest
    /\ files \in DOMAIN heap
    /\ pc = "_run" => self_files = files
    /\ pc = "done" => written = heap[files]
C9_Witness ==
    /\ pc = "done"
    /\ Len(plugins) = 3
    /\ out = 0
    /\ files = 2
    /\ heap[2] = <<"k2", "k1">>
    /\ written = <<"k2", "k1">>

\* C10: once a plugin's run has raised, the build is over: the error is
\* out of run_plugins, the last event of the pass is the call of the run
\* that raised, and nothing was handed to the writer.
C10_FailureStopsBuild ==
    /\ pc = "failed" <=> error # NoError
    /\ error # NoError =>
           /\ written = <<>>
           /\ Follows(trace, Len(plugins))
           /\ Len(trace) = 2 * idx - 1
C10_Witness ==
    /\ pc = "failed"
    /\ error.kind = "Exception"
    /\ idx = 1 /\ Len(plugins) = 3
    /\ Len(trace) = 1

\* ------------------------------------------------------------------ C11
\* C11: when a plugin with no requirements has run and returned no
\* replacement registry, the keys that were in the registry before the run
\* and were not queued for deletion are all still there, in the same
\* relative order as before (this covers the keys the plugin neither deleted
\* nor replaced, and also the ones whose record it replaced or marked).
C11_KeyOrderPreserved ==
    pc = "returned" =>
        SelectSeq(KeysOf(registry), LAMBDA k : k \in Range(KeysOf(registry0)))
          = SelectSeq(KeysOf(registry0), LAMBDA k : k \notin Range(deletion_queue))
\* a two-file registry comes out of a run that replaced the first record
\* and marked the second one, both keys in place
C11_Witness ==
    /\ pc = "returned"
    /\ KeysOf(registry0) = <<"k1", "k2">>
    /\ KeysOf(registry) = <<"k1", "k2">>
    /\ registry[1].data = NewRecord
    /\ registry0[1].data # NewRecord
    /\ matched_files = <<"k2">>

\* ------------------------------------------------------------------ C12
\* C12: after run has returned normally, every context key the plugin set
\* or deleted through its view is in the live context as its last operation
\* left it (the last value set, or absent after a delete), and every other
\* key of the live context is as it was before the run.
C12_FlushReflectsLastOperation ==
    pc = "returned" =>
        \A k \in CtxKeys :
            CASE lastop[k].op = "set" ->
                     k \in DOMAIN context /\ context[k] = lastop[k].v
              [] lastop[k].op = "del" -> k \notin DOMAIN context
              [] OTHER ->
                     /\ k \in DOMAIN context <=> k \in DOMAIN context0
                     /\ k \in DOMAIN context => context[k] = context0[k]
\* additional context {a: 1}, live context {b: 2}; the plugin set a = 99 and
\* deleted b; the live context is {a: 99}
C12_Witness ==
    /\ pc = "returned"
    /\ additional_context = ("a" :> 1)
    /\ context0 = ("b" :> 2)
    /\ lastop["a"] = [op |-> "set", v |-> 99]
    /\ lastop["b"].op = "del"
    /\ context = ("a" :> 99)

\* ------------------------------------------------------------------ C13
\* C13: no step changes the additional context given to the constructor
\* (the flush writes to the live context only), and after a run a key that
\* was in the additional context but not in the live context is in the live
\* context only if the plugin's last operation on it was a write.
C13_AdditionalContextUntouched ==
    /\ [][additional_context' = additional_context]_vars
    /\ [](pc = "returned" =>
            \A k \in DOMAIN additional_context \ DOMAIN context0 :
                k \in DOMAIN context => lastop[k].op = "set")
\* a run has ended in which the plugin wrote one of two keys that only the
\* additional context had; the written one alone reached the live context
C13_Witness ==
    /\ pc = "returned"
    /\ additional_context = [k \in CtxKeys |-> 1]
    /\ context0 = EmptyDict
    /\ lastop["a"].op = "set"
    /\ lastop["b"].op = "none"
    /\ DOMAIN context = {"a"}

\* ------------------------------------------------------------------ C14
\* C14: while _run is executing, looking a key up through the context view
\* gives the value the plugin last wrote, else the additional-context value,
\* else the live-context value; a key whose last operation is a delete, or
\* that is in none of the three, raises KeyError and is not a member.
ExpectedRead(k) ==
    CASE lastop[k].op = "set" -> Found(lastop[k].v)
      [] lastop[k].op = "del" -> Missing
      [] k \in DOMAIN additional_context -> Found(additional_context[k])
      [] k \in DOMAIN context -> Found(context[k])
      [] OTHER -> Missing
C14_ViewReads ==
    pc = "_run" =>
        \A k \in CtxKeys :
            /\ getitem(k) = ExpectedRead(k)
            /\ contains(k) <=> ExpectedRead(k).found
\* during _run: key a is in both contexts and was written, key b is in both
\* contexts and was deleted
C14_Witness ==
    /\ pc = "_run"
    /\ DOMAIN additional_context = CtxKeys
    /\ DOMAIN context = CtxKeys
    /\ lastop["a"].op = "set"
    /\ lastop["b"].op = "del"
    /\ getitem("a") = Found(lastop["a"].v)
    /\ ~contains("b")

\* ------------------------------------------------------------------ C15
\* C15: a mark_matched(key) call (the step that appends key to
\* matched_files) raises nothing; when key is in the registry its record
\* gets every entry of file_data and keeps its other attributes, and no
\* other record and no key changes; when key is not in the registry the
\* registry is left as it is.
MarkedBy(k) ==
    /\ pc' = pc /\ error' = error
    /\ KeysOf(registry') = KeysOf(registry)
    /\ \A i \in 1..Len(registry) :
          IF registry[i].key # k THEN registry'[i] = registry[i]
          ELSE /\ DOMAIN registry'[i].data
                    = DOMAIN registry[i].data \cup DOMAIN file_data
               /\ \A a \in DOMAIN registry'[i].data :
                     registry'[i].data[a] = IF a \in DOMAIN file_data
                                            THEN file_data[a]
                                            ELSE registry[i].data[a]
C15_MarkMatchedMerges ==
    [][\A k \in Keys : matched_files' = Append(matched_files, k) => MarkedBy(k)]_vars
\* the registry holds k1 only; mark_matched("k2") left it alone and
\* mark_matched("k1") overrode x and kept y
C15_Witness ==
    /\ pc = "_run"
    /\ registry0 = <<Item("k1", [a \in Attrs |-> 1])>>
    /\ file_data = ("x" :> 7)
    /\ matched_files = <<"k2", "k1">>
    /\ registry = <<Item("k1", [a \in Attrs |-> IF a = "x" THEN 7 ELSE 1])>>

\* ------------------------------------------------------------------ C16
\* C16: a query consumed to its end without an error has yielded exactly
\* the items of the registry whose key matches the glob pattern (every key
\* when no pattern was given, i.e. the pattern is None) and whose record
\* satisfies every predicate, each once and in registry order.
Satisfies(e, c) ==
    \A i \in 1..Len(c.kwargs) :
        compare_key(c.kwargs[i].key, c.kwargs[i].test, e.data, c.py) = "T"
C16_QueryYieldsMatches ==
    q_state = "exhausted" =>
        q_out = SelectSeq(registry,
                    LAMBDA e : /\ call.pattern = None \/ fnmatch(e.key, call.pattern.s)
                               /\ Satisfies(e, call))

\* ------------------------------------------------------------------ C17
\* C17: in a query whose only predicate compares field w with eq (explicit
\* or implied), lt, lte, gt or gte against a test value that is not None, a
\* record without the field w is never yielded and never makes the query
\* raise.
PlainComparison(c) ==
    /\ Len(c.kwargs) = 1
    /\ c.kwargs[1].key \in {Field} \cup {Field \o <<op>> : op \in {"eq", "lt", "lte", "gt", "gte"}}
    /\ c.kwargs[1].test # None
C17_MissingFieldIsNoMatch ==
    PlainComparison(call) =>
        /\ \A i \in 1..Len(q_out) : Field \in DOMAIN q_out[i].data
        /\ q_state = "raised" => Field \in DOMAIN registry[q_pos].data

\* ------------------------------------------------------------------ C18
\* C18: a query that has a predicate with an unrecognized operator, once
\* consumed, has failed with the invalid-operator error (ValueError),
\* whatever the registry, the pattern and the other predicates are; the
\* registry, the context and the plugin list are as before the call.
Operator(key) ==
    LET k1 == IF Len(key) >= 2 /\ Head(key) = "not" THEN Tail(key) ELSE key
    IN IF Len(k1) >= 2 THEN k1[Len(k1)] ELSE "eq"
HasInvalidOperator(c) ==
    \E i \in 1..Len(c.kwargs) : Operator(c.kwargs[i].key) \notin Ops
C18_InvalidOperatorFails ==
    HasInvalidOperator(call) /\ q_state \in {"exhausted", "raised"} =>
        /\ q_state = "raised"
        /\ q_err.kind = "ValueError"
        /\ registry = registry0 /\ context = context0 /\ plugins = <<"P1">>

\* ------------------------------------------------------------------ C19
\* C19: for a query with the single predicate f__op=v (op recognized, no
\* pattern), the query not__f__op=v on the same registry returns, without
\* an error, exactly the items the first one did not return, in registry
\* order.
RECURSIVE Consume(_, _, _)
Consume(reg, i, c) ==
    LET r == Scan(reg, i, c)
    IN CASE r.kind = "stop" -> [out |-> <<>>, err |-> NoError]
         [] r.kind = "raise" -> [out |-> <<>>, err |-> r.err]
         [] OTHER -> LET rest == Consume(reg, r.pos + 1, c)
                     IN [out |-> <<reg[r.pos]>> \o rest.out, err |-> rest.err]
Negated(c) ==
    [c EXCEPT !.kwargs = <<[key |-> <<"not">> \o c.kwargs[1].key,
                            test |-> c.kwargs[1].test]>>]
PlainRecognized(c) ==
    /\ c.pattern = None
    /\ Len(c.kwargs) = 1
    /\ Head(c.kwargs[1].key) # "not"
    /\ Operator(c.kwargs[1].key) \in Ops
C19_NegationIsComplement ==
    PlainRecognized(call) /\ q_state \in {"exhausted", "raised"} =>
        LET n == Consume(registry, 1, Negated(call))
        IN /\ n.err = NoError
           /\ n.out = SelectSeq(registry, LAMBDA e : e \notin Range(q_out))

\* ------------------------------------------------------------------ C20
\* C20: no step of a query, whether it is consumed to its end or dropped
\* early, changes the registry (keys, order, records) or the context; and a
\* query repeated with the same arguments yields the same items in the same
\* order, and ends the same way, as the one before it.
C20_QueryReadOnly ==
    /\ [][registry' = registry /\ context' = context]_vars
    /\ [](q_prev.full =>
            /\ IsPrefix(q_out, q_prev.out)
            /\ q_state \in {"exhausted", "raised"} =>
                  q_out = q_prev.out /\ q_err = q_prev.err)
\* a query that yielded one of two records has been repeated and has again
\* yielded that record and ended
C20_Witness ==
    /\ q_prev.full
    /\ q_state = "exhausted"
    /\ Len(registry) = 2
    /\ Len(q_out) = 1
    /\ q_out = q_prev.out
    /\ registry = registry0

\* ------------------------------------------------------------------ C21
\* C21: every build resets the registry and the live context to empty
\* before discovery runs, so when discovery is over the registry holds
\* exactly the files found, with the records discovery gives them, and the
\* context is empty, whatever earlier builds (ended or failed) left behind;
\* no step of a build start changes the plugin list or the once-list.
C21_BuildStartsEmpty ==
    /\ [](pc = "reset" => registry = <<>> /\ context = EmptyDict)
    /\ [](pc = "ready" =>
            /\ context = EmptyDict
            /\ KeysOf(registry) \in FoundFiles
            /\ \A i \in 1..Len(registry) : registry[i].data = FoundRecord)
    /\ [][pc' \in {"reset", "ready"} =>
            plugins' = plugins /\ once_plugins' = once_plugins]_vars
\* a build whose run stored a record and wrote the context has been
\* followed by a new build, which is past discovery with one file
C21_Witness ==
    /\ pc = "ready"
    /\ Has(registry0, "k2")
    /\ lastop["a"].op = "set"
    /\ KeysOf(registry) = <<"k1">>
    /\ context = EmptyDict

C23_BaseRunRaises ==
    error.kind = "NotImplementedError" =>
        /\ pc = "failed"
        /\ registry = registry0
        /\ context = context0
\* the failing run was called on a registry and a context an earlier run
\* had filled
C23_Witness ==
    /\ error.kind = "NotImplementedError"
    /\ Len(registry) = 2
    /\ context # EmptyDict

\* ------------------------------------------------------------------ C29
\* C29: the live context changes only in the flush at the end of run (or
\* when a build resets it): no statement of _run changes it, whatever it
\* sets or deletes through the view; a mark_matched on a present key shows
\* in the live registry at once, while _run is still executing.
C29_ContextDeferredRegistryLive ==
    /\ [][pc' = "_run" => context' = context]_vars
    /\ [][context' # context =>
            \/ pc' = "reset"
            \/ /\ pc = "_run" /\ pc' \in {"returned", "failed"}
               /\ context' = merge_changes(context, changes, deletions)]_vars
    /\ [][\A k \in Keys :
            matched_files' = Append(matched_files, k) /\ Has(registry, k) =>
                /\ pc' = "_run"
                /\ \A a \in DOMAIN file_data : Data(registry', k)[a] = file_data[a]]_vars
\* _run is executing: it has written the context view and marked a
\* record; the live context is as before, the live registry is not
C29_Witness ==
    /\ pc = "_run"
    /\ changes # EmptyDict
    /\ context = context0
    /\ matched_files = <<"k1">>
    /\ registry # registry0
    /\ Data(registry, "k1")["x"] = 7

\* ------------------------------------------------------------------ C30
\* C30: when _run raises (any exception, the KeyError of a delete through
\* the view, or the base class's NotImplementedError), the live context is
\* what it was before run and every queued key that was in the registry is
\* still in it.
RaisedInRun(e) ==
    \/ e.kind \in {"Exception", "NotImplementedError"}
    \/ e.kind = "KeyError" /\ e.args[1] \in CtxKeys
C30_RaiseDiscardsChanges ==
    pc = "failed" /\ RaisedInRun(error) =>
        /\ context = context0
        /\ \A k \in Range(deletion_queue) : Has(registry0, k) => Has(registry, k)
\* _run wrote the view, deleted through it and queued a deletion, then
\* raised
C30_Witness ==
    /\ pc = "failed"
    /\ error.kind = "Exception"
    /\ changes # EmptyDict
    /\ deletions # <<>>
    /\ deletion_queue = <<"k1">>
    /\ Has(registry, "k1")
    /\ context = context0

\* ------------------------------------------------------------------ C28
\* C28: when a plugin's _run queued deletions and returned a replacement
\* registry, none of the queued keys is in the registry that run_plugins
\* adopts for the plugins that follow.
C28_DeletionsReachReplacement ==
    [][pc = "_run" /\ pc' = "run_plugins" /\ out' # 0 =>
            Range(deletion_queue) \cap Range(heap'[files']) = {}]_vars

\* ------------------------------------------------------------------ C24
\* C24: discovery registers a file if and only if its path matches some
\* include pattern and no exclude pattern, its basename matches no
\* exclude_files pattern or matches some include_files pattern, and every
\* directory between the source and the file passes the same test; the
\* files of a directory come before the files of its subdirectories.
AllFiles ==
    UNION {{join(d, n) : n \in Range(fs[d])} : d \in Dirs} \ Dirs
Passes(p) ==
    /\ AnyMatch(p, config.include)
    /\ ~AnyMatch(p, config.exclude)
    /\ \/ ~AnyMatch(basename(p), config.exclude_files)
       \/ AnyMatch(basename(p), config.include_files)
Below(d, p) == IsPrefix(d \o <<"/">>, p)
Between(p) == {d \in Dirs \ {Source} : Below(d, p)}
C24_DiscoveryFilter ==
    pc = "listed" =>
        /\ \A p \in AllFiles :
              Has(registry, relpath(p, Source)) <=>
                  Passes(p) /\ \A d \in Between(p) : Passes(d)
        /\ \A i \in 1..Len(registry) : join(Source, registry[i].key) \in AllFiles
        /\ \A i, j \in 1..Len(registry) :
              Below(dirname(join(Source, registry[i].key)),
                    dirname(join(Source, registry[j].key))) => i < j
\* one discovery in which a pattern excludes a path, a basename is
\* excluded, another is whitelisted, and an excluded directory hides a
\* file that passes on its own
C24_Witness ==
    /\ pc = "listed"
    /\ Has(registry, <<"b">>)
    /\ Has(registry, <<"i", ".", "f">>)
    /\ Has(registry, <<"h", "/", "b">>)
    /\ ~Has(registry, <<"d", "/", "b", ".", "e">>)
    /\ ~Has(registry, <<"d", "/", "b", ".", "f">>)
    /\ ~Has(registry, <<"d", "/", "g", "/", "i", ".", "f">>)
    /\ Passes(join(join(join(Source, <<"d">>), <<"g">>), <<"i", ".", "f">>))
    /\ Passes(join(Source, <<"d">>))
    /\ AnyMatch(<<"i", ".", "f">>, config.exclude_files)

\* ------------------------------------------------------------------ C25
\* C25: when discovery is over and no plugin has run yet, the registry's
\* keys are pairwise different paths relative to the source, and every
\* record has source = destination = its key.
C25_DiscoveredRecords ==
    pc = "listed" =>
        /\ \A i, j \in 1..Len(registry) :
              registry[i].key = registry[j].key => i = j
        /\ \A i \in 1..Len(registry) :
              /\ registry[i].key # <<>>
              /\ registry[i].key[1] # "/"
              /\ join(config.source, registry[i].key) \in AllFiles
              /\ DOMAIN registry[i].data = {"source", "destination"}
              /\ registry[i].data["source"] = registry[i].key
              /\ registry[i].data["destination"] = registry[i].key
\* every file of the tree has been registered, the nested ones too
C25_Witness ==
    /\ pc = "listed"
    /\ Len(registry) = 6
    /\ Has(registry, <<"d", "/", "g", "/", "i", ".", "f">>)

\* ------------------------------------------------------------------ C26
\* C26: when write_output has returned, every record of the registry whose
\* skip_write is falsy has its contents in the file at the path derived
\* from its destination, and a file exists only at the path of a record
\* that was to be written.
OutputPath(data) == join(config.destination, data["destination"].s)
C26_WritesEveryRecord ==
    pc = "done" =>
        /\ \A i \in 1..Len(registry) :
              ~IsTrue(get(registry[i].data, "skip_write")) =>
                  /\ OutputPath(registry[i].data) \in DOMAIN disk
                  /\ disk[OutputPath(registry[i].data)]
                        = get(registry[i].data, "_contents").s
        /\ \A p \in DOMAIN disk :
              \E i \in 1..Len(registry) :
                  /\ OutputPath(registry[i].data) = p
                  /\ ~IsTrue(get(registry[i].data, "skip_write"))

\* ------------------------------------------------------------------ C27
\* C27: when an InDirectory block has been left, by the end of its body or
\* by an exception, nested in another block or not, the working directory
\* is the one that was in effect when the block was entered.
C27_DirectoryRestored ==
    left.by # "none" => left.after = left.entered
\* a nested block whose body had changed the directory again was left by
\* an exception
C27_Witness ==
    /\ left.by = "exception"
    /\ left.nested
    /\ left.before # left.entered
    /\ left.before # <<"tmp">>
    /\ cwd = left.entered

\* ------------------------------------------------------------------ C31
\* C31: every run of a plugin instance starts with an empty deletion queue
\* and an empty matched-file list; a key leaves the registry only in the
\* flush of a run that queued it itself (or when a build resets the
\* registry), so a key queued in an earlier run or build is not removed
\* again by a later run.
C31_QueuePerRun ==
    /\ [][pc # "_run" /\ pc' = "_run" =>
            deletion_queue' = <<>> /\ matched_files' = <<>>]_vars
    /\ [][\A k \in StoredKeys :
            Has(registry, k) /\ ~Has(registry', k) =>
                \/ pc' = "reset"
                \/ /\ pc = "_run" /\ pc' \in {"returned", "failed"}
                   /\ k \in Range(deletion_queue)]_vars
\* discovery found k1 and k2, one run deleted k1, a later run of the
\* instance stored k1 again and returned: k1 is still there
C31_Witness ==
    /\ pc = "returned"
    /\ registry0 = <<Item("k2", FoundRecord)>>
    /\ KeysOf(registry) = <<"k2", "k1">>
    /\ deletion_queue = <<>>

\* ------------------------------------------------------------------ C39
\* C39: while _run executes, len() of the context view is the number of
\* distinct keys that are in the view, whatever was set and deleted and
\* however the additional and the live context overlap.
C39_LenCountsVisibleKeys ==
    pc = "_run" => len = Cardinality({k \in CtxKeys : contains(k)})

\* ------------------------------------------------------------------ C37
\* C37: a class whose run_once is false can be registered again and again:
\* a plugin() call for it that returns leaves the old list as a prefix of
\* the new one and the new instance at the end of the list, and a
\* run_plugins pass calls run exactly once on each of its entries.
RunsOn(i) == {j \in 1..Len(trace) : trace[j].ev = "run" /\ trace[j].i = i}
C37_RepeatedRegistration ==
    /\ (last.cls # "none" /\ ~run_once[last.cls] /\ last.err = NoError) =>
           /\ IsPrefix(last.before, plugins)
           /\ Len(plugins) > Len(last.before)
           /\ plugins[Len(plugins)] = last.cls
           /\ Count(plugins, last.cls) > Count(last.before, last.cls)
    /\ \A c \in Classes : ~run_once[c] /\ LoopOver =>
           /\ Cardinality(RunsOf(c)) = Count(plugins, c)
           /\ \A i \in Positions(c) : Cardinality(RunsOn(i)) = 1
           /\ \A i1, i2 \in Positions(c) :
                  \A j1 \in RunsOn(i1), j2 \in RunsOn(i2) : i1 < i2 => j1 < j2
\* one class registered three times and run three times in a finished pass
C37_Witness ==
    /\ pc = "done"
    /\ \E c \in Classes :
          /\ ~run_once[c]
          /\ Count(plugins, c) = 3
          /\ Cardinality(RunsOf(c)) = 3

\* ------------------------------------------------------------------ C32
\* C32: on a requires() graph without a cycle every plugin() call comes to
\* an end, and when its requirements are resolved each class has been
\* instantiated once per requirement path leading to it from the argument;
\* on a graph with a cycle a call that reaches the cycle never returns,
\* whatever run_once says, since the run_once test comes after the
\* requirements.
Acyclic == \A c \in Classes : Range(requires[c]) \subseteq Lower(c)
RECURSIVE Paths(_, _)
Paths(reqs, d) ==
    IF reqs = <<>> THEN 0
    ELSE (IF Head(reqs) = d THEN 1 ELSE 0)
         + Paths(requires[Head(reqs)], d) + Paths(Tail(reqs), d)
Step(S) == S \cup UNION {Range(requires[x]) : x \in S}
OnCycle(d) == d \in Step(Step(Range(requires[d])))
Diverges(c) == \E d \in Step(Step({c})) : OnCycle(d)
C32_ResolutionTerminates ==
    /\ (Acyclic /\ stack # <<>>) ~> (stack = <<>>)
    /\ [](Acyclic /\ stack # <<>> =>
            \A d \in Classes :
               /\ Count(made, d) <= Paths(requires[stack[1].cls], d)
               /\ (Len(stack) = 1
                   /\ stack[1].pos > Len(requires[stack[1].cls])) =>
                      Count(made, d) = Paths(requires[stack[1].cls], d))
    /\ [][(/\ stack # <<>>
           /\ Diverges(stack[1].cls)
           /\ \A c \in Classes : requirable[c]) => stack' # <<>>]_vars
\* a call whose argument reaches one class along two requirement paths has
\* returned, with that class instantiated twice
C32_Witness ==
    /\ stack = <<>>
    /\ error = NoError
    /\ Count(made, "P1") = 2
    /\ Count(made, "P2") = 1
    /\ Len(plugins) >= 4


\* ---- the stock plugins (SpecStock)
\* the latest turn of the loop ran an instance of cls
LastRan(cls) == ran # <<>> /\ ran[Len(ran)].cls = cls
PlaceOf(reg, k) == CHOOSE i \in 1..Len(reg) : reg[i].key = k
WeightOr1000(e) ==
    IF "weight" \in DOMAIN e.data THEN e.data["weight"].n ELSE 1000

\* C33: Weighted's run returns a registry with exactly the keys and records
\* of the registry it was given, ordered by non-decreasing weight, a missing
\* weight counting as 1000 and records of equal weight keeping their
\* previous relative order; after the turn of run_plugins this is the order
\* of the live registry.
C33_WeightedOrders ==
    LastRan("Weighted") =>
        /\ error = NoError
        /\ Len(registry) = Len(registry0)
        /\ Range(registry) = Range(registry0)
        /\ \A i \in 1..Len(registry) : \A j \in 1..Len(registry) :
              i < j => WeightOr1000(registry[i]) <= WeightOr1000(registry[j])
        /\ \A i \in 1..Len(registry0) : \A j \in 1..Len(registry0) :
              (i < j /\ WeightOr1000(registry0[i]) = WeightOr1000(registry0[j]))
                 => PlaceOf(registry, registry0[i].key)
                      < PlaceOf(registry, registry0[j].key)
\* Weighted has reordered a registry that held a record without a weight
\* behind a heavier one and two records of one weight
C33_Witness ==
    /\ LastRan("Weighted")
    /\ registry # registry0
    /\ \E i \in 1..Len(registry0) : \E j \in 1..Len(registry0) :
          /\ i < j
          /\ WeightOr1000(registry0[i]) = 2000
          /\ "weight" \notin DOMAIN registry0[j].data
    /\ \E i \in 1..Len(registry0) : \E j \in 1..Len(registry0) :
          i < j /\ WeightOr1000(registry0[i]) = WeightOr1000(registry0[j])

\* C36: Match merges its file_data into exactly the records whose key
\* matches the mask, into all records when no mask is given, leaves every
\* other record unchanged, and neither adds, removes nor reorders keys.
C36_MatchMergesIntoMatching ==
    LastRan("Match") =>
        LET p == ran[Len(ran)]
        IN /\ error = NoError
           /\ KeysOf(registry) = KeysOf(registry0)
           /\ \A i \in 1..Len(registry0) :
                 registry[i].data =
                    IF p.mask.t = "none" \/ fnmatch(registry0[i].key, p.mask.s)
                    THEN Update(registry0[i].data, p.file_data)
                    ELSE registry0[i].data
\* the same for the masks that are None or not empty
C36_ExceptEmptyMask ==
    (LastRan("Match") /\ ran[Len(ran)].mask # StrVal(<<>>))
        => C36_MatchMergesIntoMatching

\* C35: after Data runs, every record whose key is under dir_name and whose
\* parsed contents are not None is gone from the registry and its parsed
\* entries are in the live context, a later record overriding an earlier
\* one on a key clash; the records outside dir_name are in the registry
\* unchanged and give the context nothing.
Under(dir_name, k) ==
    /\ Len(k) > Len(dir_name)
    /\ SubSeq(k, 1, Len(dir_name) + 1) = dir_name \o <<"/">>
ParsedOf(e) == get(e.data, "_contents_parsed")
IsData(p, e) == Under(p.dir_name, e.key) /\ ParsedOf(e).t # "none"
EntryOf(e, k) ==
    \E j \in 1..Len(ParsedOf(e).s) : ParsedOf(e).s[j][1] = k
C35_DataMovesToContext ==
    LastRan("Data") =>
        LET p == ran[Len(ran)]
            data == SelectSeq(registry0, LAMBDA e : IsData(p, e))
            rest == SelectSeq(registry0, LAMBDA e : ~IsData(p, e))
        IN /\ \A i \in 1..Len(data) : ~Has(registry, data[i].key)
           /\ \A i \in 1..Len(data) : \A j \in 1..Len(ParsedOf(data[i]).s) :
                 LET k == ParsedOf(data[i]).s[j][1]
                 IN /\ k \in DOMAIN context
                    /\ (\A l \in (i + 1)..Len(data) : ~EntryOf(data[l], k))
                          => context[k] = Held(ParsedOf(data[i]).s, k)
           /\ registry = rest
           /\ \A k \in DOMAIN context0 :
                 (\A i \in 1..Len(data) : ~EntryOf(data[i], k))
                    => k \in DOMAIN context /\ context[k] = context0[k]
           /\ \A k \in DOMAIN context :
                 k \in DOMAIN context0 \/ \E i \in 1..Len(data) : EntryOf(data[i], k)
\* the same for registries whose parsed contents under dir_name are
\* mappings or None
C35_OnMappings ==
    (/\ LastRan("Data")
     /\ \A i \in 1..Len(registry0) :
           Under(ran[Len(ran)].dir_name, registry0[i].key)
              => ParsedOf(registry0[i]).t \in {"none", "dict"})
        => C35_DataMovesToContext

\* C34: after Concat runs, for any registry, mask and dest, every record
\* whose key matched the mask before the run is gone, the registry holds the
\* key dest, whose _contents is the contents of the matched records joined
\* in registry order (each in its closure when the file type is js and
\* encapsulate_js is set) and whose destination is dest, the records that
\* did not match keep their relative order, and the live context maps the
\* configured name to dest.
C34_ConcatReplacesMatching ==
    LastRan("Concat") =>
        LET p == ran[Len(ran)]
            hit(e) == fnmatch(e.key, p.mask.s)
            miss(e) == ~fnmatch(e.key, p.mask.s)
            taken == SelectSeq(registry0, hit)
            rest == KeysOf(SelectSeq(registry0, miss))
            text(e) == IF p.filetype = <<"j", "s">> /\ p.encapsulate_js
                       THEN Closure(ContentsOf(e.data)) ELSE ContentsOf(e.data)
        IN /\ \A i \in 1..Len(taken) : ~Has(registry, taken[i].key)
           /\ Has(registry, p.dest)
           /\ get(Data(registry, p.dest), "_contents")
                 = StrVal(Joined([i \in 1..Len(taken) |-> text(taken[i])]))
           /\ get(Data(registry, p.dest), "destination") = StrVal(p.dest)
           /\ SelectSeq(KeysOf(registry), LAMBDA k : k \in Range(rest)) = rest
           /\ p.name \in DOMAIN context
           /\ context[p.name] = StrVal(p.dest)
\* the same when dest is not the key of a record that matches the mask
C34_ExceptMatchingDest ==
    (/\ LastRan("Concat")
     /\ ~(/\ Has(registry0, ran[Len(ran)].dest)
          /\ fnmatch(ran[Len(ran)].dest, ran[Len(ran)].mask.s)))
        => C34_ConcatReplacesMatching

\* ---- serve mode (SpecServe)
\* the builds that have ended and whose request has been answered
Attempts == SelectSeq(served, LAMBDA e : e.built # "none")
LastRaised == Attempts # <<>> /\ Attempts[Len(Attempts)].built = "raised"
\* handler i passes the test of build_interval in this step
Decides(i) ==
    /\ Len(handlers') = Len(handlers)
    /\ handlers[i].phase = "do_GET"
    /\ handlers'[i].phase # "do_GET"

\* C38: in serve mode a build that raises answers the request with status
\* 500 and leaves the last-build time as it was, so the next request
\* attempts the build again whatever build_interval is; after a build that
\* succeeded no build starts before build_interval seconds have gone by;
\* and two builds never run at the same time.
C38_ServeBuilds ==
    /\ [](Cardinality(Building) <= 1)
    /\ [][\A i \in 1..Len(handlers) :
            (handlers[i].phase = "build" /\ handlers' = Without(handlers, i))
               => /\ Len(served') = Len(served) + 1
                  /\ served'[Len(served')].status = 500
                  /\ last_build' = last_build]_vars
    /\ [][LastRaised =>
            \A i \in 1..Len(handlers) :
               Decides(i) => handlers'[i].phase = "build"]_vars
    /\ [][\A i \in 1..Len(handlers) :
            (Decides(i) /\ handlers'[i].phase = "build")
               => \A k \in 1..Len(served) :
                     served[k].built = "ok"
                        => now - served[k].at >= config.build_interval]_vars
\* a build raised and was answered with 500, the next request built the
\* site, and the request after it came too early for another build
C38_Witness ==
    /\ config.build_interval > 0
    /\ Len(served) = 3
    /\ served[1].built = "raised"
    /\ served[1].status = 500
    /\ served[2].built = "ok"
    /\ served[3].built = "none"

====
